---------------------------- MODULE Spec2Model ----------------------------
(***************************************************************************)
(* A model of OptionalToolManager (src/main/managers/OptionalToolManager.ts)*)
(* of better-kenku-fm: the installer of optional tools                      *)
(* (ensureToolInstalled), the remote tools-manifest cache                   *)
(* (getRemoteManifest) and release resolution (getRelease).                 *)
(*                                                                         *)
(* Every `await` of the source is a point where another pending call of    *)
(* the manager may run, so each asynchronous method is a sequence of       *)
(* actions, one per awaited operation, run by a process p in Procs.        *)
(***************************************************************************)
EXTENDS Integers, Sequences, FiniteSets, TLC

\* ------------------------------------------------------------------ bounds
\* The clock takes the values 0 .. MaxClock (in ticks of half a TTL).
MaxClock == 3
\* ... and 0 .. MaxInstallClock while only installs run.
MaxInstallClock == 1
\* Overlapping installs: at most MaxCalls calls are begun.
MaxCalls == 2
\* At most MaxCatalogCalls getRelease calls are begun.
MaxCatalogCalls == 2
\* Remote manifests are published with version 1 .. MaxManifestVersion.
MaxManifestVersion == 2
\* At most MaxWrites writes of the JSON file are begun.
MaxWrites == 3

\* ------------------------------------------------------------ program data
REMOTE_MANIFEST_CACHE_TTL_MS == 1000 * 60 * 60 * 6

\* One tick of the model's clock, in milliseconds: half of the TTL.
MsPerTick == REMOTE_MANIFEST_CACHE_TTL_MS \div 2

ToolNames == {"yt-dlp", "ffmpeg"}

Procs == {1, 2}

\* An absent value: undefined / null / a file that does not exist.
None == [kind |-> "none"]

VARIABLES
    clock,          \* the wall clock, in ticks
    \* ---- the file system under <userData>/optional-tools
    manifestFile,   \* tools.json
    manifestTmp,    \* tools.json.tmp
    binFiles,       \* bin/<binaryName>
    tmpFiles,       \* tmp/<binaryName>-<ms>.tmp
    \* ---- one pending ensureToolInstalled call per process
    ipc,            \* where the call is
    itool,          \* its argument `tool`
    irelease,       \* its `release`
    imanifest,      \* its `manifest` (as read by readManifest)
    itempPath,      \* its `tempPath`
    ierr,           \* the error it threw, None while none
    idownloads,     \* how many downloads it performed
    ihashedOk,      \* whether verifyReleaseIntegrity compared the hash equal
    ifetched,       \* the `response` bytes of its download, None before
    \* ---- history, read by the properties only
    istart,         \* what the call found installed when it began
    istartManifest, \* tools.json when the call began
    istartBinary,   \* the file at the binary path when the call began
    ncalls,         \* how many calls have begun (where the number is bounded)
    \* ---- the remote manifest
    publicKey,      \* REMOTE_MANIFEST_PUBLIC_KEY_PEM, None when not set
    platformKey,    \* getPlatformKey()
    memCache,       \* this.remoteManifestMemoryCache
    cacheFile,      \* tools-manifest-cache.json
    cacheTmp,       \* tools-manifest-cache.json.tmp
    \* ---- one pending getRelease call per process
    gpc,            \* where the call is
    gtool,          \* its argument `tool`
    gnow,           \* getRemoteManifest: `now`
    gdisk,          \* getRemoteManifest: `diskCache`
    gcache,         \* getRemoteManifest: `cache`
    gresult,        \* what getRemoteManifest returned
    grelease,       \* what getRelease returned
    \* ---- history, read by the properties only
    gresponse,      \* the response the call's fetch received
    gpath,          \* how getRemoteManifest returned
    gcalls,         \* how many calls have begun
    \* ---- one httpGetBuffer call
    hpc,            \* where the call is
    hredirectCount, \* its argument `redirectCount`
    hrequests,      \* how many https.get requests it has issued
    hlog,           \* the responses it received, in order
    hresult,        \* what the promise settled with
    \* ---- one JSON file written by temp file and rename
    wpc,            \* where each writer is
    wdata,          \* what each writer writes
    whandle,        \* the file each writer's fs.writeFile has open
    wcount,         \* how many writes have begun
    files,          \* the content of each file created so far
    tmpFile,        \* the file at <path>.tmp (0: none)
    canonFile,      \* the file at <path> (0: none)
    robserved,      \* what the last reader of <path> read
    \* ---- the TrackAdd dialog
    requestId,      \* its state `requestId`
    progress,       \* its state `progress`
    loading,        \* its state `loading`
    perror,         \* its state `error`
    pevent,         \* the progress event delivered last
    phigh,          \* the highest numeric progress shown for the request
    \* ---- one resolveTrackSource call
    rpc,            \* where the call is
    rsource,        \* its argument `source`
    rrequest,       \* the request id the caller passed
    rlog,           \* what has happened for the call, in order
    rresult,        \* what it returned or threw
    \* ---- one downloadYoutubeAudio call
    xpc,            \* where the call is
    xstdout,        \* what yt-dlp wrote to standard output
    xcode,          \* yt-dlp's exit code
    xdisk,          \* the files that exist under the media directory
    xlines,         \* its `lines`
    xresult         \* what it returned or threw

installVars == <<manifestFile, manifestTmp, binFiles, tmpFiles, ipc, itool,
                 irelease, imanifest, itempPath, ierr, idownloads, ihashedOk,
                 ifetched, istart, istartManifest, istartBinary>>

catalogVars == <<publicKey, platformKey, memCache, cacheFile, cacheTmp, gpc,
                 gtool, gnow, gdisk, gcache, gresult, grelease, gresponse,
                 gpath, gcalls>>

fetchVars == <<hpc, hredirectCount, hrequests, hlog, hresult>>

writeVars == <<wpc, wdata, whandle, wcount, files, tmpFile, canonFile,
               robserved>>

progressVars == <<requestId, progress, loading, perror, pevent, phigh>>

resolveVars == <<rpc, rsource, rrequest, rlog, rresult>>

extractVars == <<xpc, xstdout, xcode, xdisk, xlines, xresult>>

\* The variables of the parts other than the installer and the manifest
\* cache.
auxVars == <<fetchVars, writeVars, progressVars, resolveVars, extractVars>>

vars == <<clock, catalogVars, installVars, ncalls, auxVars>>

\* No httpGetBuffer call is modelled.
FetchIdle ==
    /\ hpc = "idle"
    /\ hredirectCount = 0
    /\ hrequests = 0
    /\ hlog = <<>>
    /\ hresult = None

\* No file write is modelled.
WriteIdle ==
    /\ wpc = [w \in Procs |-> "idle"]
    /\ wdata = [w \in Procs |-> None]
    /\ whandle = [w \in Procs |-> 0]
    /\ wcount = 0
    /\ files = <<>>
    /\ tmpFile = 0
    /\ canonFile = 0
    /\ robserved = None

\* The TrackAdd dialog is closed.
ProgressIdle ==
    /\ requestId = None
    /\ progress = None
    /\ loading = FALSE
    /\ perror = None
    /\ pevent = None
    /\ phigh = None

\* No resolveTrackSource call is modelled.
ResolveIdle ==
    /\ rpc = "idle"
    /\ rsource = None
    /\ rrequest = None
    /\ rlog = <<>>
    /\ rresult = None

\* No downloadYoutubeAudio call is modelled.
ExtractIdle ==
    /\ xpc = "idle"
    /\ xstdout = <<>>
    /\ xcode = 0
    /\ xdisk = {}
    /\ xlines = <<>>
    /\ xresult = None

AuxIdle ==
    FetchIdle /\ WriteIdle /\ ProgressIdle /\ ResolveIdle /\ ExtractIdle

\* ------------------------------------------------------------------- time
\* Date.now(): milliseconds.
DateNow == clock * MsPerTick

\* new Date().toISOString() and Date.parse of it: the string form of a
\* timestamp, and NaN (None here) for anything that is not one.
ToISOString(ms) == [kind |-> "iso", ms |-> ms]

DateParse(s) == IF s.kind = "iso" THEN s.ms ELSE -1

IsFiniteDate(s) == s.kind = "iso"

Tick ==
    /\ clock < MaxClock
    /\ clock' = clock + 1

\* ------------------------------------------------------- hashes, signatures
\* The byte strings a download or an external writer can produce.
Bytes == {"yt1", "yt2", "ff1", "junk"}

\* sha256(): hex digest of a file's bytes (collision free on Bytes).
Sha256Hex(b) ==
    CASE b = "yt1" -> "aa01"
      [] b = "yt2" -> "aa02"
      [] b = "ff1" -> "ff01"
      [] OTHER     -> "0bad"

\* crypto.verify("sha256", payload, key, signature): a signature is modelled
\* by the payload it signs ("garbage" signs nothing).
CryptoVerify(payload, key, signature) == signature = payload

\* The payload of a release signature: `${tool}@${version}:${hash}`.
ReleasePayload(tool, version, hash) ==
    [kind |-> "sig", tool |-> tool, version |-> version, hash |-> hash]

Garbage == [kind |-> "garbage"]

\* ---------------------------------------------------------------- releases
\* What getRelease can return for a tool: a version, its URL and declared
\* hash, the binary name, and an optional signature and public key.
BinaryNameOf(tool) == tool

GoodBytes(tool, version) ==
    IF tool = "ffmpeg" THEN "ff1" ELSE IF version = "v1" THEN "yt1" ELSE "yt2"

MkRelease(tool, version, sig, key) ==
    [version |-> version,
     url |-> <<"url", tool, version>>,
     sha256 |-> Sha256Hex(GoodBytes(tool, version)),
     binaryName |-> BinaryNameOf(tool),
     signature |-> sig,
     publicKeyPem |-> key]

VersionsOf(tool) == IF tool = "ffmpeg" THEN {"v1"} ELSE {"v1", "v2"}

\* Unsigned releases only (the compiled-in table carries no signature).
UnsignedReleasesOf(tool) ==
    { MkRelease(tool, v, None, None) : v \in VersionsOf(tool) }

\* Every version unsigned; the first version of yt-dlp also signed and
\* valid, signed and invalid, and signed with no key to check against.
ReleasesOf(tool) ==
    UnsignedReleasesOf(tool) \cup
    IF tool = "yt-dlp"
    THEN LET h == Sha256Hex(GoodBytes(tool, "v1")) IN
         { MkRelease(tool, "v1", ReleasePayload(tool, "v1", h), [kind |-> "pem"]),
           MkRelease(tool, "v1", Garbage, [kind |-> "pem"]),
           MkRelease(tool, "v1", Garbage, None) }
    ELSE {}

BinaryNames == { BinaryNameOf(t) : t \in ToolNames }

\* path.join(this.binDir, release.binaryName)
BinaryPath(release) == [kind |-> "bin", name |-> release.binaryName]

\* path.join(this.tempDir, `${release.binaryName}-${Date.now()}.tmp`)
TempPath(release, nowMs) ==
    [kind |-> "tmp", name |-> release.binaryName, ms |-> nowMs]

TempPaths ==
    { [kind |-> "tmp", name |-> b, ms |-> t * MsPerTick] :
        b \in BinaryNames, t \in 0 .. MaxInstallClock }

\* --------------------------------------------------------------- the files
File(bytes, exec) == [kind |-> "file", bytes |-> bytes, exec |-> exec]

Exists(f) == f.kind # "none"

\* tools.json with unparsable content.
Corrupt == [kind |-> "corrupt"]

EmptyTools == [t \in ToolNames |-> None]

ManifestOf(tools) == [kind |-> "manifest", tools |-> tools]

\* readManifest: { tools: {} } when the file is absent or unparsable.
ReadManifestFile(f) == IF f.kind = "manifest" THEN f.tools ELSE EmptyTools

\* tools.json holding `null`: JSON.parse returns null and `parsed.tools`
\* throws inside readManifest's try block.
JsonNull == [kind |-> "null"]

\* Whether `tools` is an object (here: a record per tool) rather than a
\* number, which `parsed.tools || {}` lets through.
IsToolsObject(tools) == DOMAIN tools = ToolNames

\* `manifest.tools[tool]`: undefined when tools is a number.
ToolEntry(tools, tool) == IF IsToolsObject(tools) THEN tools[tool] ELSE None

ToolRecord(release, installedAt, lastVerifiedAt) ==
    [kind |-> "record",
     version |-> release.version,
     sha256 |-> release.sha256,
     binaryPath |-> BinaryPath(release),
     sourceUrl |-> release.url,
     installedAt |-> installedAt,
     lastVerifiedAt |-> lastVerifiedAt]

\* entry?.binaryPath === binaryPath && entry.version === release.version &&
\* entry.sha256 === release.sha256
EntryMatches(entry, release) ==
    /\ entry.kind = "record"
    /\ entry.binaryPath = BinaryPath(release)
    /\ entry.version = release.version
    /\ entry.sha256 = release.sha256

\* A JavaScript truthiness test of an optional string.
Truthy(x) == x.kind # "none"

\* -------------------------------------------------- ensureToolInstalled(tool)
\* History: how the installation of `tool` stands against `release`:
\* "intact" (recorded, present, hash as recorded), "tampered" (recorded,
\* present, another hash) or "other".
InstalledState(tool, release) ==
    LET f == binFiles[release.binaryName] IN
    IF /\ EntryMatches(ToolEntry(ReadManifestFile(manifestFile), tool),
                       release)
       /\ Exists(f)
    THEN IF Sha256Hex(f.bytes) = release.sha256 THEN "intact" ELSE "tampered"
    ELSE "other"

history == <<istart, istartManifest, istartBinary>>

\* The call starts: `release = await this.getRelease(tool)` has returned one
\* of the releases offered for the tool (choices: <<tool, release>> pairs).
IBegin(p, choices) ==
    /\ ipc[p] = "idle"
    /\ \E c \in choices :
          /\ itool' = [itool EXCEPT ![p] = c[1]]
          /\ irelease' = [irelease EXCEPT ![p] = c[2]]
          /\ istart' = [istart EXCEPT ![p] = InstalledState(c[1], c[2])]
          /\ istartBinary' =
                [istartBinary EXCEPT ![p] = binFiles[c[2].binaryName]]
    /\ istartManifest' = [istartManifest EXCEPT ![p] = manifestFile]
    /\ ipc' = [ipc EXCEPT ![p] = "readManifest"]
    /\ UNCHANGED <<clock, catalogVars, auxVars, manifestFile, manifestTmp,
                   binFiles, tmpFiles, imanifest, itempPath, ierr, idownloads,
                   ihashedOk, ifetched>>

\* `manifest = await this.readManifest()`, `entry = manifest.tools[tool]` and
\* the synchronous part of validExistingInstall.
IReadManifest(p) ==
    /\ ipc[p] = "readManifest"
    /\ LET tools == ReadManifestFile(manifestFile) IN
          /\ imanifest' = [imanifest EXCEPT ![p] = tools]
          /\ ipc' = [ipc EXCEPT ![p] =
                IF EntryMatches(ToolEntry(tools, itool[p]), irelease[p])
                    THEN "exists" ELSE "mkdir"]
    /\ UNCHANGED <<clock, catalogVars, auxVars, history, ncalls, ifetched,
                   manifestFile, manifestTmp, binFiles, tmpFiles, itool,
                   irelease, itempPath, ierr, idownloads, ihashedOk>>

\* `... && (await this.exists(binaryPath))`
IExists(p) ==
    /\ ipc[p] = "exists"
    /\ ipc' = [ipc EXCEPT ![p] =
          IF Exists(binFiles[irelease[p].binaryName])
              THEN "hashExisting" ELSE "mkdir"]
    /\ UNCHANGED <<clock, catalogVars, auxVars, history, ncalls, ifetched,
                   manifestFile, manifestTmp, binFiles, tmpFiles, itool,
                   irelease, imanifest, itempPath, ierr, idownloads,
                   ihashedOk>>

\* A plausible slip: the manifest record alone is trusted.
HashMatches_TrustRecord(currentHash, release) == TRUE

\* `currentHash === release.sha256`
HashMatches(currentHash, release) == currentHash = release.sha256

\* `currentHash = await this.sha256(binaryPath)` and its comparison. The
\* read throws (outside the try block) when the file has gone meanwhile.
IHashExisting(p) ==
    /\ ipc[p] = "hashExisting"
    /\ LET f == binFiles[irelease[p].binaryName] IN
          IF ~Exists(f)
          THEN /\ ierr' = [ierr EXCEPT ![p] = [kind |-> "io"]]
               /\ ipc' = [ipc EXCEPT ![p] = "thrown"]
          ELSE /\ ierr' = ierr
               /\ ipc' = [ipc EXCEPT ![p] =
                     IF HashMatches(Sha256Hex(f.bytes), irelease[p])
                         THEN "verifiedChmod" ELSE "mkdir"]
    /\ UNCHANGED <<clock, catalogVars, auxVars, history, ncalls, ifetched,
                   manifestFile, manifestTmp, binFiles, tmpFiles, itool,
                   irelease, imanifest, itempPath, idownloads, ihashedOk>>

\* `await fs.chmod(binaryPath, 0o755)` on the Verified path.
IVerifiedChmod(p) ==
    /\ ipc[p] = "verifiedChmod"
    /\ LET b == irelease[p].binaryName IN
          IF ~Exists(binFiles[b])
          THEN /\ ierr' = [ierr EXCEPT ![p] = [kind |-> "io"]]
               /\ ipc' = [ipc EXCEPT ![p] = "thrown"]
               /\ binFiles' = binFiles
          ELSE /\ ierr' = ierr
               /\ ipc' = [ipc EXCEPT ![p] = "verifiedWrite"]
               /\ binFiles' = [binFiles EXCEPT ![b].exec = TRUE]
    /\ UNCHANGED <<clock, catalogVars, auxVars, history, ncalls, ifetched,
                   manifestFile, manifestTmp, tmpFiles, itool, irelease,
                   imanifest, itempPath, idownloads, ihashedOk>>

\* A plausible slip: the record is rebuilt as for a new install.
VerifiedTools_Reinstalled(tools, tool, now) ==
    [tools EXCEPT ![tool].lastVerifiedAt = ToISOString(now),
                  ![tool].installedAt = ToISOString(now)]

\* manifest.tools[tool] = { ...entry, lastVerifiedAt: new Date().toISOString() }
VerifiedTools(tools, tool, now) ==
    [tools EXCEPT ![tool].lastVerifiedAt = ToISOString(now)]

\* The record is refreshed and writeManifest writes tools.json.tmp:
\* `fs.writeFile(tempPath, JSON.stringify(manifest))` with
\* tempPath = `${this.manifestPath}.tmp`.
IVerifiedWrite(p) ==
    /\ ipc[p] = "verifiedWrite"
    /\ LET tools == VerifiedTools(imanifest[p], itool[p], DateNow)
       IN /\ imanifest' = [imanifest EXCEPT ![p] = tools]
          /\ \/ /\ manifestTmp' = ManifestOf(tools)
                /\ ipc' = [ipc EXCEPT ![p] = "verifiedRename"]
                /\ ierr' = ierr
             \/ /\ manifestTmp' = manifestTmp
                /\ ipc' = [ipc EXCEPT ![p] = "thrown"]
                /\ ierr' = [ierr EXCEPT ![p] = [kind |-> "io"]]
    /\ UNCHANGED <<clock, catalogVars, auxVars, history, ncalls, ifetched,
                   manifestFile, binFiles, tmpFiles, itool, irelease,
                   itempPath, idownloads, ihashedOk>>

\* writeManifest, second half: `fs.rename(tempPath, this.manifestPath)`.
RenameManifest(p, okPc, failPc) ==
    IF Exists(manifestTmp)
    THEN /\ manifestFile' = manifestTmp
         /\ manifestTmp' = None
         /\ ipc' = [ipc EXCEPT ![p] = okPc]
         /\ ierr' = ierr
    ELSE /\ UNCHANGED <<manifestFile, manifestTmp>>
         /\ ipc' = [ipc EXCEPT ![p] = failPc]
         /\ ierr' = [ierr EXCEPT ![p] = [kind |-> "io"]]

IVerifiedRename(p) ==
    /\ ipc[p] = "verifiedRename"
    /\ RenameManifest(p, "verified", "thrown")
    /\ UNCHANGED <<clock, catalogVars, auxVars, history, ncalls, ifetched,
                   binFiles, tmpFiles, itool, irelease, imanifest, itempPath,
                   idownloads, ihashedOk>>

\* `fs.mkdir(binDir)`, `fs.mkdir(tempDir)` and then, synchronously,
\* tempPath = path.join(tempDir, `${release.binaryName}-${Date.now()}.tmp`)
IMkdir(p) ==
    /\ ipc[p] = "mkdir"
    /\ itempPath' = [itempPath EXCEPT ![p] = TempPath(irelease[p], DateNow)]
    /\ ipc' = [ipc EXCEPT ![p] = "download"]
    /\ UNCHANGED <<clock, catalogVars, auxVars, history, ncalls, ifetched,
                   manifestFile, manifestTmp, binFiles, tmpFiles, itool,
                   irelease, imanifest, ierr, idownloads, ihashedOk>>

\* What the server of release.url may send: the release's bytes, or bytes
\* that are not the release's (a corrupted or replaced asset).
ServedBytes(tool, release) == {GoodBytes(tool, release.version), "junk"}

\* `await this.downloadToFile(release.url, tempPath)`: httpGetBuffer, then
\* fs.writeFile(destination, response). Either may fail.
IDownload(p) ==
    /\ ipc[p] = "download"
    /\ idownloads' = [idownloads EXCEPT ![p] = @ + 1]
    /\ \/ /\ \E b \in ServedBytes(itool[p], irelease[p]) :
                /\ ifetched' = [ifetched EXCEPT ![p] = [kind |-> "bytes", bytes |-> b]]
                /\ tmpFiles' = [tmpFiles EXCEPT ![itempPath[p]] = File(b, FALSE)]
          /\ ipc' = [ipc EXCEPT ![p] = "verify"]
          /\ ierr' = ierr
       \/ /\ UNCHANGED <<tmpFiles, ifetched>>
          /\ ipc' = [ipc EXCEPT ![p] = "cleanup"]
          /\ ierr' = [ierr EXCEPT ![p] = [kind |-> "network"]]
    /\ UNCHANGED <<clock, catalogVars, auxVars, history, ncalls, manifestFile,
                   manifestTmp, binFiles, itool, irelease, imanifest,
                   itempPath, ihashedOk>>

\* verifyReleaseIntegrity(tool, filePath, release): the error it throws for
\* a file with these bytes, None when it returns.
VerifyReleaseIntegrity(tool, bytes, release) ==
    LET hash == Sha256Hex(bytes) IN
    IF hash # release.sha256
    THEN [kind |-> "checksum"]
    ELSE IF /\ Truthy(release.signature)
            /\ Truthy(release.publicKeyPem)
            /\ ~CryptoVerify(ReleasePayload(tool, release.version, hash),
                             release.publicKeyPem, release.signature)
         THEN [kind |-> "signature"]
         ELSE None

\* `await this.verifyReleaseIntegrity(tool, tempPath, release)`; sha256()
\* throws when there is no file at tempPath.
IVerify(p) ==
    /\ ipc[p] = "verify"
    /\ LET f == tmpFiles[itempPath[p]]
           e == IF Exists(f)
                    THEN VerifyReleaseIntegrity(itool[p], f.bytes, irelease[p])
                    ELSE [kind |-> "io"]
       IN /\ ierr' = [ierr EXCEPT ![p] = e]
          /\ ipc' = [ipc EXCEPT ![p] = IF e = None THEN "chmod" ELSE "cleanup"]
          /\ ihashedOk' = [ihashedOk EXCEPT ![p] =
                Exists(f) /\ e.kind # "checksum"]
    /\ UNCHANGED <<clock, catalogVars, auxVars, history, ncalls, ifetched,
                   manifestFile, manifestTmp, binFiles, tmpFiles, itool,
                   irelease, imanifest, itempPath, idownloads>>

\* `await fs.chmod(tempPath, 0o755)`
IChmod(p) ==
    /\ ipc[p] = "chmod"
    /\ \/ /\ Exists(tmpFiles[itempPath[p]])
          /\ tmpFiles' = [tmpFiles EXCEPT ![itempPath[p]].exec = TRUE]
          /\ ipc' = [ipc EXCEPT ![p] = "rename"]
          /\ ierr' = ierr
       \/ /\ tmpFiles' = tmpFiles
          /\ ipc' = [ipc EXCEPT ![p] = "cleanup"]
          /\ ierr' = [ierr EXCEPT ![p] = [kind |-> "io"]]
    /\ UNCHANGED <<clock, catalogVars, auxVars, history, ncalls, ifetched,
                   manifestFile, manifestTmp, binFiles, itool, irelease,
                   imanifest, itempPath, idownloads, ihashedOk>>

\* `await fs.rename(tempPath, binaryPath)`
IRename(p) ==
    /\ ipc[p] = "rename"
    /\ \/ /\ Exists(tmpFiles[itempPath[p]])
          /\ binFiles' = [binFiles EXCEPT ![irelease[p].binaryName] =
                tmpFiles[itempPath[p]]]
          /\ tmpFiles' = [tmpFiles EXCEPT ![itempPath[p]] = None]
          /\ ipc' = [ipc EXCEPT ![p] = "installWrite"]
          /\ ierr' = ierr
       \/ /\ UNCHANGED <<binFiles, tmpFiles>>
          /\ ipc' = [ipc EXCEPT ![p] = "cleanup"]
          /\ ierr' = [ierr EXCEPT ![p] = [kind |-> "io"]]
    /\ UNCHANGED <<clock, catalogVars, auxVars, history, ncalls, ifetched,
                   manifestFile, manifestTmp, itool, irelease, imanifest,
                   itempPath, idownloads, ihashedOk>>

\* manifest.tools[tool] = { version, sha256, binaryPath, sourceUrl,
\*   installedAt: new Date().toISOString(), lastVerifiedAt: ... }
InstalledTools(tools, tool, release, now) ==
    [tools EXCEPT ![tool] =
        ToolRecord(release, ToISOString(now), ToISOString(now))]

\* Whether the assignment `manifest.tools[tool] = ...` throws: a TypeError
\* in strict code (every module is strict) when tools is a number.
AssignmentThrows(tools) == ~IsToolsObject(tools)

\* The record is set and writeManifest writes tools.json.tmp.
IInstallWrite(p) ==
    /\ ipc[p] = "installWrite"
    /\ IF AssignmentThrows(imanifest[p])
       THEN /\ UNCHANGED <<imanifest, manifestTmp>>
            /\ ipc' = [ipc EXCEPT ![p] = "cleanup"]
            /\ ierr' = [ierr EXCEPT ![p] = [kind |-> "type"]]
       ELSE LET tools == InstalledTools(imanifest[p], itool[p], irelease[p],
                                        DateNow)
            IN /\ imanifest' = [imanifest EXCEPT ![p] = tools]
               /\ \/ /\ manifestTmp' = ManifestOf(tools)
                     /\ ipc' = [ipc EXCEPT ![p] = "installRename"]
                     /\ ierr' = ierr
                  \/ /\ manifestTmp' = manifestTmp
                     /\ ipc' = [ipc EXCEPT ![p] = "cleanup"]
                     /\ ierr' = [ierr EXCEPT ![p] = [kind |-> "io"]]
    /\ UNCHANGED <<clock, catalogVars, auxVars, history, ncalls, ifetched,
                   manifestFile, binFiles, tmpFiles, itool, irelease,
                   itempPath, idownloads, ihashedOk>>

IInstallRename(p) ==
    /\ ipc[p] = "installRename"
    /\ RenameManifest(p, "installed", "cleanup")
    /\ UNCHANGED <<clock, catalogVars, auxVars, history, ncalls, ifetched,
                   binFiles, tmpFiles, itool, irelease, imanifest, itempPath,
                   idownloads, ihashedOk>>

\* catch (error) { await fs.rm(tempPath, { force: true }); throw error; }
\* (the forced removal is taken to succeed).
ICleanup(p) ==
    /\ ipc[p] = "cleanup"
    /\ tmpFiles' = [tmpFiles EXCEPT ![itempPath[p]] = None]
    /\ ipc' = [ipc EXCEPT ![p] = "thrown"]
    /\ UNCHANGED <<clock, catalogVars, auxVars, history, ncalls, ifetched,
                   manifestFile, manifestTmp, binFiles, itool, irelease,
                   imanifest, itempPath, ierr, idownloads, ihashedOk>>

\* The call has returned ("verified", "installed") or thrown; its caller
\* takes the outcome and the process is free for another call.
IDone(p) == ipc[p] \in {"verified", "installed", "thrown"}

IReturn(p) ==
    /\ IDone(p)
    /\ ipc' = [ipc EXCEPT ![p] = "idle"]
    /\ itool' = [itool EXCEPT ![p] = None]
    /\ irelease' = [irelease EXCEPT ![p] = None]
    /\ imanifest' = [imanifest EXCEPT ![p] = None]
    /\ itempPath' = [itempPath EXCEPT ![p] = None]
    /\ ierr' = [ierr EXCEPT ![p] = None]
    /\ idownloads' = [idownloads EXCEPT ![p] = 0]
    /\ ihashedOk' = [ihashedOk EXCEPT ![p] = FALSE]
    /\ ifetched' = [ifetched EXCEPT ![p] = None]
    /\ istart' = [istart EXCEPT ![p] = "none"]
    /\ istartManifest' = [istartManifest EXCEPT ![p] = None]
    /\ istartBinary' = [istartBinary EXCEPT ![p] = None]
    /\ UNCHANGED <<clock, catalogVars, auxVars, ncalls, manifestFile,
                   manifestTmp, binFiles, tmpFiles>>

\* Something other than the manager rewrites an installed binary.
Tamper ==
    /\ \E b \in BinaryNames :
          /\ Exists(binFiles[b])
          /\ binFiles[b].bytes # "junk"
          /\ binFiles' = [binFiles EXCEPT ![b].bytes = "junk"]
          /\ istart' = [p \in Procs |->
                IF ipc[p] # "idle" /\ irelease[p].binaryName = b
                    THEN "other" ELSE istart[p]]
    /\ UNCHANGED <<clock, catalogVars, auxVars, ncalls, istartManifest,
                   istartBinary, ifetched,
                   manifestFile, manifestTmp, tmpFiles, ipc, itool, irelease,
                   imanifest, itempPath, ierr, idownloads, ihashedOk>>

\* No getRelease call is modelled: the manifest cache stays as it is.
CatalogIdle ==
    /\ publicKey = None
    /\ platformKey = "linux-x64"
    /\ memCache = None
    /\ cacheFile = None
    /\ cacheTmp = None
    /\ gpc = [p \in Procs |-> "idle"]
    /\ gtool = [p \in Procs |-> None]
    /\ gnow = [p \in Procs |-> 0]
    /\ gdisk = [p \in Procs |-> None]
    /\ gcache = [p \in Procs |-> None]
    /\ gresult = [p \in Procs |-> None]
    /\ grelease = [p \in Procs |-> None]
    /\ gresponse = [p \in Procs |-> None]
    /\ gpath = [p \in Procs |-> "none"]
    /\ gcalls = 0

InstallInit ==
    /\ CatalogIdle
    /\ AuxIdle
    /\ clock = 0
    /\ manifestFile \in {None, Corrupt}
    /\ manifestTmp = None
    /\ binFiles = [b \in BinaryNames |-> None]
    /\ tmpFiles = [t \in TempPaths |-> None]
    /\ ipc = [p \in Procs |-> "idle"]
    /\ itool = [p \in Procs |-> None]
    /\ irelease = [p \in Procs |-> None]
    /\ imanifest = [p \in Procs |-> None]
    /\ itempPath = [p \in Procs |-> None]
    /\ ierr = [p \in Procs |-> None]
    /\ idownloads = [p \in Procs |-> 0]
    /\ ihashedOk = [p \in Procs |-> FALSE]
    /\ ifetched = [p \in Procs |-> None]
    /\ istart = [p \in Procs |-> "none"]
    /\ istartManifest = [p \in Procs |-> None]
    /\ istartBinary = [p \in Procs |-> None]
    /\ ncalls = 0

AllChoices == UNION { { <<t, r>> : r \in ReleasesOf(t) } : t \in ToolNames }

\* The steps of a pending call.
IWork(p) ==
    \/ IReadManifest(p)
    \/ IExists(p)
    \/ IHashExisting(p)
    \/ IVerifiedChmod(p)
    \/ IVerifiedWrite(p)
    \/ IVerifiedRename(p)
    \/ IMkdir(p)
    \/ IDownload(p)
    \/ IVerify(p)
    \/ IChmod(p)
    \/ IRename(p)
    \/ IInstallWrite(p)
    \/ IInstallRename(p)
    \/ ICleanup(p)

IStep(p) ==
    \/ IWork(p)
    \/ IReturn(p)

TickInstall ==
    /\ clock < MaxInstallClock
    /\ Tick
    /\ UNCHANGED <<installVars, ncalls, catalogVars, auxVars>>

\* One call at a time.
IBeginSeq(p) == IBegin(p, AllChoices) /\ UNCHANGED ncalls

InstallSeqNext ==
    \/ IBeginSeq(1)
    \/ IStep(1)
    \/ Tamper
    \/ TickInstall

SpecInstallSeq ==
    InstallInit
    /\ [][InstallSeqNext]_vars

\* One call at a time, and nothing but the calls touches the files.
InstallAloneNext ==
    \/ IBeginSeq(1)
    \/ IStep(1)
    \/ TickInstall

SpecInstallAlone ==
    InstallInit
    /\ [][InstallAloneNext]_vars

\* Overlapping calls: each process runs one call after another, and the
\* steps of pending calls interleave at their awaits.
ConcurrentChoices ==
    { <<t, MkRelease(t, "v1", None, None)>> : t \in ToolNames }

IBeginCounted(p) ==
    /\ ncalls < MaxCalls
    /\ ncalls' = ncalls + 1
    /\ IBegin(p, ConcurrentChoices)

InstallNext ==
    \/ \E p \in Procs : IBeginCounted(p) \/ IStep(p)
    \/ TickInstall

SpecInstall ==
    InstallInit /\ [][InstallNext]_vars

\* ======================================================================
\* The remote tools manifest: getRemoteManifest and getRelease
\* ======================================================================
\* A JSON string, a JSON number.
Str(v) == [kind |-> "string", v |-> v]

Num(v) == [kind |-> "number", v |-> v]

\* `${process.platform}-${process.arch}`: one platform the compiled-in table
\* knows and one it does not.
PlatformKeys == {"linux-x64", "linux-ia32"}

\* BUILTIN_TOOL_RELEASES[tool][platformKey]
BUILTIN_TOOL_RELEASES(tool, platform) ==
    IF tool = "yt-dlp" /\ platform = "linux-x64"
    THEN [version |-> "2026.02.21",
          url |-> "yt-dlp_linux",
          sha256 |-> "057098b1",
          binaryName |-> <<"y", "t">>,
          signature |-> None,
          publicKeyPem |-> None]
    ELSE None

\* The entries a published manifest may hold for (yt-dlp, this platform):
\* none, a well-formed release, and one whose binaryName leaves the
\* binaries directory.
RemoteEntry(binaryName) ==
    [kind |-> "object",
     version |-> Str("2026.03.01"),
     url |-> Str("yt-dlp_remote"),
     sha256 |-> Str("c0ffee01"),
     binaryName |-> Str(binaryName),
     signature |-> None,
     publicKeyPem |-> None]

RemoteEntries ==
    {None, RemoteEntry(<<"y", "t">>), RemoteEntry(<<".", ".", "/", "y", "t">>)}

\* String.prototype.trim().length === 0
IsBlank(chars) == \A i \in 1 .. Len(chars) : chars[i] = " "

\* String.prototype.includes(c)
Includes(chars, c) == \E i \in 1 .. Len(chars) : chars[i] = c

\* String.prototype.toLowerCase() of a hex digest.
ToLowerCase(v) ==
    CASE v = "C0FFEE01" -> "c0ffee01"
      [] OTHER -> v

\* toValidToolRelease without the tests of binaryName.
ToValidToolRelease_AnyBinaryName(value) ==
    IF value.kind # "object"
    THEN None
    ELSE IF \/ value.version.kind # "string"
            \/ value.url.kind # "string"
            \/ value.sha256.kind # "string"
            \/ value.binaryName.kind # "string"
    THEN None
    ELSE [version |-> value.version.v,
          url |-> value.url.v,
          sha256 |-> ToLowerCase(value.sha256.v),
          binaryName |-> value.binaryName.v,
          signature |-> value.signature,
          publicKeyPem |-> value.publicKeyPem]

\* toValidToolRelease(value): the release, or None (null).
ToValidToolRelease(value) ==
    IF value.kind # "object"
    THEN None
    ELSE IF \/ value.version.kind # "string"
            \/ value.url.kind # "string"
            \/ value.sha256.kind # "string"
            \/ value.binaryName.kind # "string"
    THEN None
    ELSE IF \/ Includes(value.binaryName.v, "/")
            \/ Includes(value.binaryName.v, "\\")
            \/ IsBlank(value.binaryName.v)
    THEN None
    ELSE [version |-> value.version.v,
          url |-> value.url.v,
          sha256 |-> ToLowerCase(value.sha256.v),
          binaryName |-> value.binaryName.v,
          signature |-> value.signature,
          publicKeyPem |-> value.publicKeyPem]

\* A parsed manifest document. tools[tool] stands for
\* tools[tool][platformKey] of the platform the process runs on.
RemoteManifest(version, tools, signature) ==
    [kind |-> "object",
     version |-> version,
     generatedAt |-> Str("2026-03-01"),
     tools |-> tools,
     signature |-> signature]

\* JSON.stringify({ version, generatedAt, tools }): the signed payload.
ManifestPayload(parsed) ==
    [kind |-> "payload",
     version |-> parsed.version,
     generatedAt |-> parsed.generatedAt,
     tools |-> parsed.tools]

ManifestTools(entry) ==
    [kind |-> "object",
     of |-> [t \in ToolNames |-> IF t = "yt-dlp" THEN entry ELSE None]]

\* One manifest content as published: unsigned, signed, or carrying a
\* signature that does not verify.
PublishedAs(version, tools) ==
    { RemoteManifest(version, tools, None),
      RemoteManifest(version, tools,
                     ManifestPayload(RemoteManifest(version, tools, None))),
      RemoteManifest(version, tools, Garbage) }

\* What the release asset's URL may answer: no usable response (transport
\* error, status other than 200, too many redirects), or a body: not JSON,
\* JSON without a numeric version, JSON without a tools object, or a
\* manifest, unsigned, signed, or with a signature that does not verify.
Responses ==
    { [kind |-> "failed"],
      [kind |-> "body", parsed |-> [kind |-> "unparsable"]],
      [kind |-> "body", parsed |-> RemoteManifest(None, ManifestTools(None), None)],
      [kind |-> "body", parsed |-> RemoteManifest(Num(1), None, None)] }
    \cup
    { [kind |-> "body", parsed |-> m] :
        m \in UNION { PublishedAs(Num(v), ManifestTools(e)) :
                         v \in 1 .. MaxManifestVersion, e \in RemoteEntries } }

\* parseAndValidateRemoteManifest without its signature test.
ParseAndValidate_SkipsSignature(parsed, key) ==
    IF parsed.kind # "object"
    THEN [kind |-> "parse"]
    ELSE IF parsed.version.kind # "number"
    THEN [kind |-> "invalid"]
    ELSE IF parsed.tools.kind # "object"
    THEN [kind |-> "invalid"]
    ELSE None

\* parseAndValidateRemoteManifest(buffer): the error it throws, None when it
\* returns `parsed`.
ParseAndValidateRemoteManifest(parsed, key) ==
    IF parsed.kind # "object"
    THEN [kind |-> "parse"]
    ELSE IF parsed.version.kind # "number"
    THEN [kind |-> "invalid"]
    ELSE IF parsed.tools.kind # "object"
    THEN [kind |-> "invalid"]
    ELSE IF /\ Truthy(parsed.signature)
            /\ Truthy(key)
            /\ ~CryptoVerify(ManifestPayload(parsed), key, parsed.signature)
    THEN [kind |-> "signature"]
    ELSE None

CachedRemoteManifest(fetchedAt, manifest) ==
    [kind |-> "cache", fetchedAt |-> fetchedAt, manifest |-> manifest]

\* A fetchedAt that Date.parse turns into NaN.
NotADate == [kind |-> "text"]

\* readRemoteManifestDiskCache(): null (None) when the file is absent, not
\* JSON, or lacks `manifest` or `fetchedAt`.
ReadRemoteManifestDiskCache(file) ==
    IF file.kind = "cache" THEN file ELSE None

\* The freshness test with the TTL itself counted as fresh.
IsFresh_Inclusive(cache, now) ==
    /\ IsFiniteDate(cache.fetchedAt)
    /\ now - DateParse(cache.fetchedAt) <= REMOTE_MANIFEST_CACHE_TTL_MS

\* Number.isFinite(fetchedAt) && now - fetchedAt < REMOTE_MANIFEST_CACHE_TTL_MS
IsFresh(cache, now) ==
    /\ IsFiniteDate(cache.fetchedAt)
    /\ now - DateParse(cache.fetchedAt) < REMOTE_MANIFEST_CACHE_TTL_MS

\* getRelease(tool) starts and enters getRemoteManifest: `now = Date.now()`
\* and the memory-cache test run before the first await.
GBegin(p) ==
    /\ gpc[p] = "idle"
    /\ gcalls < MaxCatalogCalls
    /\ gcalls' = gcalls + 1
    /\ \E t \in ToolNames : gtool' = [gtool EXCEPT ![p] = t]
    /\ gnow' = [gnow EXCEPT ![p] = DateNow]
    /\ IF memCache # None /\ IsFresh(memCache, DateNow)
       THEN /\ gresult' = [gresult EXCEPT ![p] = memCache.manifest]
            /\ gpath' = [gpath EXCEPT ![p] = "memory"]
            /\ gpc' = [gpc EXCEPT ![p] = "returned"]
       ELSE /\ UNCHANGED <<gresult, gpath>>
            /\ gpc' = [gpc EXCEPT ![p] = "readDisk"]
    /\ UNCHANGED <<clock, installVars, ncalls, auxVars, publicKey, platformKey,
                   memCache, cacheFile, cacheTmp, gdisk, gcache, grelease,
                   gresponse>>

\* `diskCache = await this.readRemoteManifestDiskCache()` and its test.
GReadDisk(p) ==
    /\ gpc[p] = "readDisk"
    /\ LET diskCache == ReadRemoteManifestDiskCache(cacheFile) IN
          /\ gdisk' = [gdisk EXCEPT ![p] = diskCache]
          /\ IF diskCache # None /\ IsFresh(diskCache, gnow[p])
             THEN /\ memCache' = diskCache
                  /\ gresult' = [gresult EXCEPT ![p] = diskCache.manifest]
                  /\ gpath' = [gpath EXCEPT ![p] = "disk"]
                  /\ gpc' = [gpc EXCEPT ![p] = "returned"]
             ELSE /\ UNCHANGED <<memCache, gresult, gpath>>
                  /\ gpc' = [gpc EXCEPT ![p] = "fetch"]
    /\ UNCHANGED <<clock, installVars, ncalls, auxVars, publicKey, platformKey,
                   cacheFile, cacheTmp, gtool, gnow, gcache, grelease,
                   gresponse, gcalls>>

\* The memory cache after the catch block: `if (diskCache) {
\* this.remoteManifestMemoryCache = diskCache; ... }`.
FallbackMemory(mem, diskCache) ==
    IF diskCache # None THEN diskCache ELSE mem

\* catch { if (diskCache) { this.remoteManifestMemoryCache = diskCache;
\*         return diskCache.manifest; } return null; }
Catch(p) ==
    /\ gpath' = [gpath EXCEPT ![p] = "fallback"]
    /\ gpc' = [gpc EXCEPT ![p] = "returned"]
    /\ memCache' = FallbackMemory(memCache, gdisk[p])
    /\ gresult' = [gresult EXCEPT ![p] =
          IF gdisk[p] # None THEN gdisk[p].manifest ELSE None]

\* `response = await this.httpGetBuffer(url)`, parseAndValidateRemoteManifest
\* and, when it returns, `this.remoteManifestMemoryCache = cache`.
GFetch(p, responses) ==
    /\ gpc[p] = "fetch"
    /\ \E r \in responses :
          /\ gresponse' = [gresponse EXCEPT ![p] = r]
          /\ IF r.kind = "body" /\
                ParseAndValidateRemoteManifest(r.parsed, publicKey) = None
             THEN LET cache ==
                        CachedRemoteManifest(ToISOString(DateNow), r.parsed)
                  IN /\ memCache' = cache
                     /\ gcache' = [gcache EXCEPT ![p] = cache]
                     /\ gpc' = [gpc EXCEPT ![p] = "writeCache"]
                     /\ UNCHANGED <<gresult, gpath>>
             ELSE /\ Catch(p)
                  /\ gcache' = gcache
    /\ UNCHANGED <<clock, installVars, ncalls, auxVars, publicKey, platformKey,
                   cacheFile, cacheTmp, gtool, gnow, gdisk, grelease,
                   gcalls>>

\* writeRemoteManifestDiskCache, first half: fs.mkdir and
\* fs.writeFile(`${this.remoteManifestCachePath}.tmp`, ...); either may fail.
GWriteCache(p) ==
    /\ gpc[p] = "writeCache"
    /\ \/ /\ cacheTmp' = gcache[p]
          /\ gpc' = [gpc EXCEPT ![p] = "renameCache"]
          /\ UNCHANGED <<memCache, gresult, gpath>>
       \/ /\ cacheTmp' = cacheTmp
          /\ Catch(p)
    /\ UNCHANGED <<clock, installVars, ncalls, auxVars, publicKey, platformKey,
                   cacheFile, gtool, gnow, gdisk, gcache, grelease,
                   gresponse, gcalls>>

\* writeRemoteManifestDiskCache, second half: fs.rename(tempPath, path),
\* which throws when there is no file at tempPath; then `return manifest`.
GRenameCache(p) ==
    /\ gpc[p] = "renameCache"
    /\ IF Exists(cacheTmp)
       THEN /\ cacheFile' = cacheTmp
            /\ cacheTmp' = None
            /\ gresult' = [gresult EXCEPT ![p] = gcache[p].manifest]
            /\ gpath' = [gpath EXCEPT ![p] = "fetched"]
            /\ gpc' = [gpc EXCEPT ![p] = "returned"]
            /\ UNCHANGED <<memCache>>
       ELSE /\ UNCHANGED <<cacheFile, cacheTmp>>
            /\ Catch(p)
    /\ UNCHANGED <<clock, installVars, ncalls, auxVars, publicKey, platformKey,
                   gtool, gnow, gdisk, gcache, grelease, gresponse, gcalls>>

\* remoteManifest?.tools?.[tool]?.[platformKey]
RemoteEntryOf(remoteManifest, tool) ==
    IF remoteManifest.kind # "object" THEN None
    ELSE IF remoteManifest.tools.kind # "object" THEN None
    ELSE remoteManifest.tools.of[tool]

\* getRelease looking in the built-in table first.
GetRelease_BuiltinFirst(remoteManifest, tool, platform) ==
    LET remoteRelease == ToValidToolRelease(RemoteEntryOf(remoteManifest, tool))
    IN IF BUILTIN_TOOL_RELEASES(tool, platform) # None
       THEN BUILTIN_TOOL_RELEASES(tool, platform)
       ELSE remoteRelease

\* getRelease after `await this.getRemoteManifest()`: the release it
\* returns, None when it throws "Unsupported platform".
GetRelease(remoteManifest, tool, platform) ==
    LET remoteRelease == ToValidToolRelease(RemoteEntryOf(remoteManifest, tool))
    IN IF remoteRelease # None
       THEN remoteRelease
       ELSE BUILTIN_TOOL_RELEASES(tool, platform)

GResolve(p) ==
    /\ gpc[p] = "returned"
    /\ LET release == GetRelease(gresult[p], gtool[p], platformKey) IN
          /\ grelease' = [grelease EXCEPT ![p] = release]
          /\ gpc' = [gpc EXCEPT ![p] =
                IF release = None THEN "unsupported" ELSE "resolved"]
    /\ UNCHANGED <<clock, installVars, ncalls, auxVars, publicKey, platformKey,
                   memCache, cacheFile, cacheTmp, gtool, gnow, gdisk, gcache,
                   gresult, gresponse, gpath, gcalls>>

\* getRelease has returned or thrown; the process is free for another call.
GDone(p) == gpc[p] \in {"resolved", "unsupported"}

GReturn(p) ==
    /\ GDone(p)
    /\ gpc' = [gpc EXCEPT ![p] = "idle"]
    /\ gtool' = [gtool EXCEPT ![p] = None]
    /\ gnow' = [gnow EXCEPT ![p] = 0]
    /\ gdisk' = [gdisk EXCEPT ![p] = None]
    /\ gcache' = [gcache EXCEPT ![p] = None]
    /\ gresult' = [gresult EXCEPT ![p] = None]
    /\ grelease' = [grelease EXCEPT ![p] = None]
    /\ gresponse' = [gresponse EXCEPT ![p] = None]
    /\ gpath' = [gpath EXCEPT ![p] = "none"]
    /\ UNCHANGED <<clock, installVars, ncalls, auxVars, publicKey, platformKey,
                   memCache, cacheFile, cacheTmp, gcalls>>

TickCatalog == Tick /\ UNCHANGED <<catalogVars, installVars, ncalls, auxVars>>

\* A manifest fetched by an earlier run of the application.
OldManifest ==
    RemoteManifest(Num(1), ManifestTools(RemoteEntry(<<"y", "t">>)), None)

\* The process starts: nothing in memory; on disk no cache, an unreadable
\* one, or one written at time 0 by an earlier run.
\* No ensureToolInstalled call is modelled: its files stay as they are.
InstallIdle ==
    /\ manifestFile = None
    /\ manifestTmp = None
    /\ binFiles = [b \in BinaryNames |-> None]
    /\ tmpFiles = [t \in TempPaths |-> None]
    /\ ipc = [p \in Procs |-> "idle"]
    /\ itool = [p \in Procs |-> None]
    /\ irelease = [p \in Procs |-> None]
    /\ imanifest = [p \in Procs |-> None]
    /\ itempPath = [p \in Procs |-> None]
    /\ ierr = [p \in Procs |-> None]
    /\ idownloads = [p \in Procs |-> 0]
    /\ ihashedOk = [p \in Procs |-> FALSE]
    /\ ifetched = [p \in Procs |-> None]
    /\ istart = [p \in Procs |-> "none"]
    /\ istartManifest = [p \in Procs |-> None]
    /\ istartBinary = [p \in Procs |-> None]
    /\ ncalls = 0

CatalogInit ==
    /\ InstallIdle
    /\ AuxIdle
    /\ clock = 0
    /\ publicKey \in {None, [kind |-> "pem"]}
    /\ platformKey \in PlatformKeys
    /\ memCache = None
    /\ cacheFile \in {None, Corrupt,
                       CachedRemoteManifest(ToISOString(0), OldManifest),
                       CachedRemoteManifest(NotADate, OldManifest)}
    /\ cacheTmp = None
    /\ gpc = [p \in Procs |-> "idle"]
    /\ gtool = [p \in Procs |-> None]
    /\ gnow = [p \in Procs |-> 0]
    /\ gdisk = [p \in Procs |-> None]
    /\ gcache = [p \in Procs |-> None]
    /\ gresult = [p \in Procs |-> None]
    /\ grelease = [p \in Procs |-> None]
    /\ gresponse = [p \in Procs |-> None]
    /\ gpath = [p \in Procs |-> "none"]
    /\ gcalls = 0

GStep(p) ==
    \/ GBegin(p)
    \/ GReadDisk(p)
    \/ GWriteCache(p)
    \/ GRenameCache(p)
    \/ GResolve(p)
    \/ GReturn(p)

GFetchSeq(p) == GFetch(p, Responses)

\* One call at a time, any response.
CatalogSeqNext ==
    \/ GFetchSeq(1)
    \/ GStep(1)
    \/ TickCatalog

SpecCatalogSeq ==
    CatalogInit /\ [][CatalogSeqNext]_vars

\* Overlapping calls: the first await of getRemoteManifest lets a second
\* getRelease call run. The fetch fails or answers one of two unsigned
\* manifests; no public key is configured.
ConcurrentResponses ==
    { [kind |-> "failed"] }
    \cup
    { [kind |-> "body",
       parsed |-> RemoteManifest(Num(v), ManifestTools(RemoteEntry(<<"y", "t">>)),
                                 None)] : v \in 1 .. MaxManifestVersion }

GFetchConcurrent(p) == GFetch(p, ConcurrentResponses)

CatalogConcurrentInit ==
    /\ InstallIdle
    /\ AuxIdle
    /\ clock = 0
    /\ publicKey = None
    /\ platformKey = "linux-x64"
    /\ memCache = None
    /\ cacheFile \in {None, CachedRemoteManifest(ToISOString(0), OldManifest)}
    /\ cacheTmp = None
    /\ gpc = [p \in Procs |-> "idle"]
    /\ gtool = [p \in Procs |-> None]
    /\ gnow = [p \in Procs |-> 0]
    /\ gdisk = [p \in Procs |-> None]
    /\ gcache = [p \in Procs |-> None]
    /\ gresult = [p \in Procs |-> None]
    /\ grelease = [p \in Procs |-> None]
    /\ gresponse = [p \in Procs |-> None]
    /\ gpath = [p \in Procs |-> "none"]
    /\ gcalls = 0

CatalogNext ==
    \/ \E p \in Procs : GFetchConcurrent(p) \/ GStep(p)
    \/ TickCatalog

SpecCatalog ==
    CatalogConcurrentInit
    /\ [][CatalogNext]_vars

\* ======================================================================
\* getRelease over the entries a cached remote manifest can hold
\* ======================================================================
\* The values a field of an entry can have: missing, a number, the empty
\* string, a string.
VersionValues == {None, Num(1), Str(""), Str("2026.03.01")}

UrlValues == {None, Num(1), Str(""), Str("yt-dlp_remote")}

Sha256Values == {None, Num(1), Str(""), Str("c0ffee01"), Str("C0FFEE01")}

BinaryNameValues ==
    {None, Num(1), Str(<<>>), Str(<<" ">>), Str(<<"y", "t">>),
     Str(<<".", ".", "/", "y", "t">>), Str(<<"y", "\\", "t">>)}

\* What remoteManifest.tools[tool][platformKey] can be: nothing, a value
\* that is no object, or an object with any of the field values above.
EntryInputs ==
    {None, Str("yt-dlp"), Num(1)}
    \cup
    { [kind |-> "object", version |-> v, url |-> u, sha256 |-> h,
       binaryName |-> b, signature |-> None, publicKeyPem |-> None] :
        v \in VersionValues, u \in UrlValues, h \in Sha256Values,
        b \in BinaryNameValues }

\* The process starts with a fresh disk cache that holds a manifest with one
\* of the entries; no public key is configured.
ReleaseInit ==
    /\ InstallIdle
    /\ AuxIdle
    /\ clock = 0
    /\ publicKey = None
    /\ platformKey \in PlatformKeys
    /\ memCache = None
    /\ cacheFile \in
         { CachedRemoteManifest(ToISOString(0),
                                RemoteManifest(Num(1), ManifestTools(e), None)) :
             e \in EntryInputs }
    /\ cacheTmp = None
    /\ gpc = [p \in Procs |-> "idle"]
    /\ gtool = [p \in Procs |-> None]
    /\ gnow = [p \in Procs |-> 0]
    /\ gdisk = [p \in Procs |-> None]
    /\ gcache = [p \in Procs |-> None]
    /\ gresult = [p \in Procs |-> None]
    /\ grelease = [p \in Procs |-> None]
    /\ gresponse = [p \in Procs |-> None]
    /\ gpath = [p \in Procs |-> "none"]
    /\ gcalls = 0

\* getRelease calls, one after another, served from the cache.
ReleaseNext ==
    \/ GBegin(1)
    \/ GReadDisk(1)
    \/ GResolve(1)
    \/ GReturn(1)

SpecRelease == ReleaseInit /\ [][ReleaseNext]_vars

\* ======================================================================
\* httpGetBuffer
\* ======================================================================
\* `if (redirectCount > 5)`
RedirectLimit == 5

\* res.statusCode: 0 stands for undefined.
StatusCodes == {0, 200, 204, 301, 302, 404}

\* What https.get may bring: a response (status and, maybe, a Location
\* header), or an "error" event of the request.
HttpResponses ==
    { [kind |-> "response", statusCode |-> c, location |-> l] :
        c \in StatusCodes, l \in {None, Str("next")} }
    \cup { [kind |-> "error"] }

\* statusCode && statusCode >= 300 && statusCode < 400 &&
\* res.headers.location
IsRedirect(res) ==
    /\ res.kind = "response"
    /\ res.statusCode # 0
    /\ res.statusCode >= 300
    /\ res.statusCode < 400
    /\ Truthy(res.location)

\* The limit test one hop late.
TooManyRedirects_OneMore(redirectCount) == redirectCount > RedirectLimit + 1

\* if (redirectCount > 5) throw new Error("Too many redirects ...")
TooManyRedirects(redirectCount) == redirectCount > RedirectLimit

HttpError(message) == [kind |-> "error", message |-> message]

\* httpGetBuffer(url, redirectCount) up to its https.get: it throws at once
\* or issues the request.
HttpGetBuffer(redirectCount) ==
    /\ hredirectCount' = redirectCount
    /\ IF TooManyRedirects(redirectCount)
       THEN /\ hpc' = "settled"
            /\ hresult' = HttpError("Too many redirects while downloading tool")
            /\ hrequests' = hrequests
       ELSE /\ hpc' = "waiting"
            /\ hresult' = hresult
            /\ hrequests' = hrequests + 1

\* Everything but the variables of httpGetBuffer.
fetchFrame == <<clock, installVars, ncalls, catalogVars, writeVars,
                progressVars, resolveVars, extractVars>>

\* A caller calls httpGetBuffer(url).
HBegin ==
    /\ hpc = "idle"
    /\ HttpGetBuffer(0)
    /\ hlog' = <<>>
    /\ UNCHANGED fetchFrame

\* The callback of https.get, or the request's "error" event.
HResponse ==
    /\ hpc = "waiting"
    /\ \E res \in HttpResponses :
          /\ hlog' = Append(hlog, res)
          /\ IF res.kind = "error"
             THEN /\ hpc' = "settled"
                  /\ hresult' = HttpError("request error")
                  /\ UNCHANGED <<hredirectCount, hrequests>>
             ELSE IF IsRedirect(res)
             THEN HttpGetBuffer(hredirectCount + 1)
             ELSE IF res.statusCode # 200
             THEN /\ hpc' = "settled"
                  /\ hresult' = HttpError("Failed to download tool")
                  /\ UNCHANGED <<hredirectCount, hrequests>>
             ELSE /\ hpc' = "body"
                  /\ UNCHANGED <<hredirectCount, hrequests, hresult>>
    /\ UNCHANGED fetchFrame

\* The response stream ends ("end": the chunks are the buffer) or fails
\* ("error").
HBody ==
    /\ hpc = "body"
    /\ \/ hresult' = [kind |-> "buffer"]
       \/ hresult' = HttpError("response error")
    /\ hpc' = "settled"
    /\ UNCHANGED <<hredirectCount, hrequests, hlog>>
    /\ UNCHANGED fetchFrame

\* The caller has the result; another call may follow.
HReturn ==
    /\ hpc = "settled"
    /\ hpc' = "idle"
    /\ hredirectCount' = 0
    /\ hrequests' = 0
    /\ hlog' = <<>>
    /\ hresult' = None
    /\ UNCHANGED fetchFrame

FetchInit ==
    /\ clock = 0
    /\ InstallIdle
    /\ CatalogIdle
    /\ WriteIdle
    /\ ProgressIdle
    /\ ResolveIdle
    /\ ExtractIdle
    /\ hpc = "idle"
    /\ hredirectCount = 0
    /\ hrequests = 0
    /\ hlog = <<>>
    /\ hresult = None

FetchNext ==
    \/ HBegin
    \/ HResponse
    \/ HBody
    \/ HReturn

SpecFetch == FetchInit /\ [][FetchNext]_vars

\* ======================================================================
\* writeManifest and writeRemoteManifestDiskCache: a JSON file written
\* through `${path}.tmp` and renamed; readManifest and
\* readRemoteManifestDiskCache read it
\* ======================================================================
\* fs.writeFile is not one step: it opens the file (creating it, or
\* truncating the one there), writes, and closes; a file that is renamed
\* stays the same file for a writer that has it open. files[i] is the
\* content of the i-th file created; tmpFile and canonFile say which file,
\* if any, is at each path.
EmptyFile == [kind |-> "empty"]

\* JSON.stringify(...) of the write begun n-th, by writer w.
JsonOf(w, n) == [kind |-> "json", by |-> w, n |-> n]

\* Bytes of two writes in one file.
MixedFile == [kind |-> "mixed"]

\* Everything but the variables of the file writes.
writeFrame == <<clock, installVars, ncalls, catalogVars, fetchVars,
                progressVars, resolveVars, extractVars>>

\* writeManifest(manifest) is called: fs.mkdir, JSON.stringify.
WBegin(w) ==
    /\ wpc[w] = "idle"
    /\ wcount < MaxWrites
    /\ wcount' = wcount + 1
    /\ wdata' = [wdata EXCEPT ![w] = JsonOf(w, wcount + 1)]
    /\ wpc' = [wpc EXCEPT ![w] = "open"]
    /\ UNCHANGED <<whandle, files, tmpFile, canonFile, robserved>>
    /\ UNCHANGED writeFrame

\* fs.writeFile(tempPath, ...), the open: flag "w" creates the file or
\* truncates the one at tempPath.
WOpen(w) ==
    /\ wpc[w] = "open"
    /\ IF tmpFile = 0
       THEN /\ files' = Append(files, EmptyFile)
            /\ tmpFile' = Len(files) + 1
            /\ whandle' = [whandle EXCEPT ![w] = Len(files) + 1]
       ELSE /\ files' = [files EXCEPT ![tmpFile] = EmptyFile]
            /\ tmpFile' = tmpFile
            /\ whandle' = [whandle EXCEPT ![w] = tmpFile]
    /\ wpc' = [wpc EXCEPT ![w] = "write"]
    /\ UNCHANGED <<wdata, wcount, canonFile, robserved>>
    /\ UNCHANGED writeFrame

\* What a file holds after `data` is written from its start: the data, or,
\* when another writer's bytes are in it, possibly a mix of both.
Written(content, data) ==
    IF content.kind = "empty" \/ content = data
    THEN {data}
    ELSE {data, MixedFile}

\* fs.writeFile(tempPath, ...), the write and close.
WWrite(w) ==
    /\ wpc[w] = "write"
    /\ \E c \in Written(files[whandle[w]], wdata[w]) :
          files' = [files EXCEPT ![whandle[w]] = c]
    /\ wpc' = [wpc EXCEPT ![w] = "rename"]
    /\ UNCHANGED <<wdata, whandle, wcount, tmpFile, canonFile, robserved>>
    /\ UNCHANGED writeFrame

\* fs.rename(tempPath, path): the file at tempPath, 0 when there is none
\* (ENOENT).
RenameSource(w) == tmpFile

WRename(w) ==
    /\ wpc[w] = "rename"
    /\ IF RenameSource(w) = 0
       THEN /\ wpc' = [wpc EXCEPT ![w] = "failed"]
            /\ UNCHANGED <<tmpFile, canonFile>>
       ELSE /\ canonFile' = RenameSource(w)
            /\ tmpFile' = 0
            /\ wpc' = [wpc EXCEPT ![w] = "done"]
    /\ UNCHANGED <<wdata, whandle, wcount, files, robserved>>
    /\ UNCHANGED writeFrame

\* writeManifest has returned or thrown.
WReturn(w) ==
    /\ wpc[w] \in {"done", "failed"}
    /\ wpc' = [wpc EXCEPT ![w] = "idle"]
    /\ wdata' = [wdata EXCEPT ![w] = None]
    /\ whandle' = [whandle EXCEPT ![w] = 0]
    /\ UNCHANGED <<wcount, files, tmpFile, canonFile, robserved>>
    /\ UNCHANGED writeFrame

\* fs.readFile(path) of readManifest or readRemoteManifestDiskCache.
WRead ==
    /\ robserved' = IF canonFile = 0 THEN None ELSE files[canonFile]
    /\ UNCHANGED <<wpc, wdata, whandle, wcount, files, tmpFile, canonFile>>
    /\ UNCHANGED writeFrame

\* No file yet, or the complete file an earlier run wrote.
WriteInit ==
    /\ clock = 0
    /\ InstallIdle
    /\ CatalogIdle
    /\ FetchIdle
    /\ ProgressIdle
    /\ ResolveIdle
    /\ ExtractIdle
    /\ wpc = [w \in Procs |-> "idle"]
    /\ wdata = [w \in Procs |-> None]
    /\ whandle = [w \in Procs |-> 0]
    /\ wcount = 0
    /\ \/ files = <<>> /\ canonFile = 0
       \/ files = <<JsonOf(0, 0)>> /\ canonFile = 1
    /\ tmpFile = 0
    /\ robserved = None

WriteNext ==
    \/ \E w \in Procs : WBegin(w) \/ WOpen(w) \/ WWrite(w) \/ WRename(w)
                          \/ WReturn(w)
    \/ WRead

SpecWrite == WriteInit /\ [][WriteNext]_vars

\* ======================================================================
\* TrackAdd: the dialog's state and its progress listener
\* (src/player/features/playlists/TrackAdd.tsx)
\* ======================================================================

\* Request ids uuid() can return.
RequestIds == {"r1", "r2"}

\* ProgressEvent.stage.
Stages == {"prepare", "download-audio", "finalize"}

\* ProgressEvent.message.
Messages == {"m1", "m2"}

\* ProgressEvent.progress: a number, or None when the field is missing.
ProgressValues == {None, Num(5), Num(30), Num(40)}

\* TrackSourceProgress.
TrackSourceProgress == [stage : Stages, message : Messages,
                        progress : ProgressValues]

\* The arguments of one PLAYER_RESOLVE_TRACK_SOURCE_PROGRESS event.
ProgressEvents == [id : RequestIds, progress : TrackSourceProgress]

\* typeof x.progress === "number"
IsNumber(value) == value.kind = "number"

\* The updater handleProgress passes to setProgress, with every incoming
\* event adopted whole.
MergeProgress_AdoptIncoming(prev, incomingProgress) == incomingProgress

\* The updater handleProgress passes to setProgress, with the number kept
\* for an event of any stage that has none.
MergeProgress_RetainsForAnyStage(prev, incomingProgress) ==
    IF prev = None THEN incomingProgress
    ELSE IF /\ IsNumber(prev.progress)
            /\ IsNumber(incomingProgress.progress)
            /\ incomingProgress.progress.v < prev.progress.v
         THEN [incomingProgress EXCEPT !.progress = prev.progress]
    ELSE IF IsNumber(prev.progress) /\ ~IsNumber(incomingProgress.progress)
         THEN [incomingProgress EXCEPT !.progress = prev.progress]
    ELSE incomingProgress

\* The updater handleProgress passes to setProgress.
MergeProgress(prev, incomingProgress) ==
    IF prev = None THEN incomingProgress
    ELSE IF /\ IsNumber(prev.progress)
            /\ IsNumber(incomingProgress.progress)
            /\ incomingProgress.progress.v < prev.progress.v
         THEN [incomingProgress EXCEPT !.progress = prev.progress]
    ELSE IF /\ IsNumber(prev.progress)
            /\ ~IsNumber(incomingProgress.progress)
            /\ incomingProgress.stage = "download-audio"
         THEN [incomingProgress EXCEPT !.progress = prev.progress]
    ELSE incomingProgress

\* The progress handleSubmit shows before it calls resolveTrackSource.
PreparingProgress ==
    [stage |-> "prepare", message |-> "Preparing import pipeline...",
     progress |-> Num(5)]

\* The greater of the mark and the progress now shown.
HighWater(mark, shown) ==
    IF shown = None \/ ~IsNumber(shown.progress) THEN mark
    ELSE IF mark = None \/ mark.v < shown.progress.v THEN shown.progress
    ELSE mark

\* handleSubmit up to its await: the state it sets for request id.
SubmitState(id) ==
    /\ perror' = None
    /\ loading' = TRUE
    /\ requestId' = Str(id)
    /\ progress' = PreparingProgress
    /\ phigh' = HighWater(None, PreparingProgress)
    /\ pevent' = None

\* The effect on [open] once the dialog is closed.
ResetState ==
    /\ perror' = None
    /\ loading' = FALSE
    /\ progress' = None
    /\ requestId' = None
    /\ phigh' = None
    /\ pevent' = None

\* handleSubmit's catch and finally: the message is shown.
FailState(message) ==
    /\ perror' = message
    /\ loading' = FALSE
    /\ pevent' = None
    /\ UNCHANGED <<requestId, progress, phigh>>

progressFrame == <<clock, catalogVars, installVars, ncalls, fetchVars,
                   writeVars, resolveVars, extractVars>>

\* The form is submitted (the button is disabled while loading).
HandleSubmit ==
    /\ ~loading
    /\ \E id \in RequestIds : SubmitState(id)
    /\ UNCHANGED progressFrame

\* The listener receives an event.
HandleProgress ==
    /\ \E e \in ProgressEvents :
          /\ pevent' = e
          /\ IF requestId # None /\ e.id = requestId.v
             THEN /\ progress' = MergeProgress(progress, e.progress)
                  /\ phigh' = HighWater(phigh,
                                        MergeProgress(progress, e.progress))
             ELSE UNCHANGED <<progress, phigh>>
    /\ UNCHANGED <<requestId, loading, perror>>
    /\ UNCHANGED progressFrame

\* resolveTrackSource returned: the track is added and onClose closes the
\* dialog.
SubmitSucceeds ==
    /\ loading
    /\ ResetState
    /\ UNCHANGED progressFrame

\* resolveTrackSource threw: the message is shown, nothing is retried.
SubmitFails ==
    /\ loading
    /\ FailState(Str("error"))
    /\ UNCHANGED progressFrame

\* The dialog is closed from outside (Escape, backdrop).
Close ==
    /\ requestId # None
    /\ ResetState
    /\ UNCHANGED progressFrame

ProgressInit ==
    /\ clock = 0
    /\ InstallIdle
    /\ CatalogIdle
    /\ FetchIdle
    /\ WriteIdle
    /\ ResolveIdle
    /\ ExtractIdle
    /\ ProgressIdle

ProgressNext ==
    \/ HandleSubmit
    \/ HandleProgress
    \/ SubmitSucceeds
    \/ SubmitFails
    \/ Close

SpecProgress == ProgressInit /\ [][ProgressNext]_vars

\* ======================================================================
\* resolveTrackSource(source, playlistId), called from TrackAdd.handleSubmit
\* ======================================================================
\* Strings are sequences of pieces; a string is always cut into the same
\* pieces, so two strings are equal exactly when their sequences are.
Whitespace == {" "}

\* The strings a user may put in the url field.
Sources ==
    { <<>>,
      <<" ">>,
      <<"https", "://", "www", ".", "youtube", ".", "com", "/", "watch">>,
      <<" ", "https", "://", "youtu", ".", "be", "/", "x", " ">>,
      <<"https", "://", "YouTube", ".", "COM", "/", "watch">>,
      <<"https", "://", "m", ".", "youtube", ".", "com">>,
      <<"https", "://", "music", ".", "youtube", ".", "com", "/", "x">>,
      <<"https", "://", "youtube", ".", "com", ":", "8080", "/", "x">>,
      <<"ftp", "://", "youtube", ".", "com", "/", "x">>,
      <<"https", "://", "not", "youtube", ".", "com", "/", "x">>,
      <<"https", "://", "youtube", ".", "com", ".", "evil", ".", "com">>,
      <<"https", "://", "www", ".", "youtu", ".", "be", "/", "x">>,
      <<"https", "://", "youtube", ".", "com", "@", "evil", ".", "com">>,
      <<"https", "://", "evil", ".", "com", "/", "?", "youtube", ".", "com">>,
      <<"https", "://", "evil", ".", "com", "/", "a", ".", "mp3">>,
      <<"youtube", ".", "com", "/", "watch">>,
      <<"/", "home", "/", "a", ".", "mp3">> }

\* String.prototype.trim
RECURSIVE Trim(_)
Trim(str) ==
    IF str = <<>> THEN str
    ELSE IF Head(str) \in Whitespace THEN Trim(Tail(str))
    ELSE IF str[Len(str)] \in Whitespace
         THEN Trim(SubSeq(str, 1, Len(str) - 1))
    ELSE str

\* String.prototype.toLowerCase of a string in pieces.
LowerCased(str) ==
    [i \in 1 .. Len(str) |->
        CASE str[i] = "YouTube" -> "youtube"
          [] str[i] = "COM" -> "com"
          [] OTHER -> str[i]]

\* String.prototype.endsWith
EndsWith(str, suffix) ==
    /\ Len(str) >= Len(suffix)
    /\ SubSeq(str, Len(str) - Len(suffix) + 1, Len(str)) = suffix

\* The index of the first piece of str in `marks` at or after `from`, or
\* Len(str) + 1.
IndexOf(str, marks, from) ==
    CHOOSE i \in from .. Len(str) + 1 :
        /\ i = Len(str) + 1 \/ str[i] \in marks
        /\ \A j \in from .. i - 1 : str[j] \notin marks

\* The index of the last piece of str in `marks`, or 0.
LastIndexOf(str, marks) ==
    CHOOSE i \in 0 .. Len(str) :
        /\ i = 0 \/ str[i] \in marks
        /\ \A j \in i + 1 .. Len(str) : str[j] \notin marks

\* new URL(input) for an input with no base: it throws (ok is FALSE) unless
\* the input is `scheme://authority...` with a host; hostname is the
\* authority without user information and port, in lower case.
ParseURL(input) ==
    LET str == Trim(input)
        stop == IndexOf(str, {"/", "?", "#"}, 3)
        authority == SubSeq(str, 3, stop - 1)
        hostport == SubSeq(authority, LastIndexOf(authority, {"@"}) + 1,
                           Len(authority))
        host == SubSeq(hostport, 1, IndexOf(hostport, {":"}, 1) - 1)
    IN IF /\ Len(str) >= 3
          /\ str[1] \in {"http", "https", "ftp"}
          /\ str[2] = "://"
          /\ host # <<>>
       THEN [ok |-> TRUE, hostname |-> LowerCased(host)]
       ELSE [ok |-> FALSE, hostname |-> <<>>]

\* isYoutubeURL, with the suffix test missing its leading dot.
IsYoutubeURL_SuffixWithoutDot(value) ==
    LET parsed == ParseURL(Trim(value))
        host == LowerCased(parsed.hostname)
    IN IF ~parsed.ok THEN FALSE
       ELSE \/ host = <<"youtu", ".", "be">>
            \/ EndsWith(host, <<"youtube", ".", "com">>)

\* isYoutubeURL (OptionalToolManager.ts)
IsYoutubeURL(value) ==
    LET parsed == ParseURL(Trim(value))
        host == LowerCased(parsed.hostname)
    IN IF ~parsed.ok THEN FALSE
       ELSE \/ host = <<"youtube", ".", "com">>
            \/ host = <<"www", ".", "youtube", ".", "com">>
            \/ host = <<"m", ".", "youtube", ".", "com">>
            \/ host = <<"youtu", ".", "be">>
            \/ EndsWith(host, <<".", "youtube", ".", "com">>)

\* isYoutubeURL (AudioSelector.tsx)
AudioSelectorIsYoutubeURL(value) ==
    LET parsed == ParseURL(Trim(value))
        host == LowerCased(parsed.hostname)
    IN IF ~parsed.ok THEN FALSE
       ELSE \/ host = <<"youtube", ".", "com">>
            \/ host = <<"www", ".", "youtube", ".", "com">>
            \/ host = <<"m", ".", "youtube", ".", "com">>
            \/ host = <<"youtu", ".", "be">>
            \/ EndsWith(host, <<".", "youtube", ".", "com">>)

\* AudioSelector: `youtube = Boolean(value) && isYoutubeURL(value)`
AudioSelectorYoutube(value) ==
    value # <<>> /\ AudioSelectorIsYoutubeURL(value)

\* ResolvedTrackSource, and what resolveTrackSource throws.
ResolvedTrackSource(sourceType, title, localPath, url) ==
    [kind |-> "resolved", sourceType |-> sourceType, title |-> title,
     localPath |-> localPath, url |-> url]

Thrown(error) == [kind |-> "thrown", error |-> error]

\* pathToFileURL(filePath).toString()
PathToFileURL(filePath) == [kind |-> "fileurl", path |-> filePath]

\* The file yt-dlp leaves for a source, and the title it prints.
DownloadedFile(sourceUrl) == [kind |-> "media", of |-> sourceUrl]

DownloadedTitle(sourceUrl) == [kind |-> "title", of |-> sourceUrl]

\* One entry of the record of what happened for the pending request.
LogEntry(event, id) == [event |-> event, id |-> id]

\* The release getRelease("yt-dlp") returns here.
YtDlpChoices == { <<"yt-dlp", MkRelease("yt-dlp", "v1", None, None)>> }

resolveFrame == <<clock, catalogVars, installVars, ncalls, fetchVars,
                  writeVars, extractVars>>

\* The form is submitted with the url field's value (the button is disabled
\* while the field is empty or a request is pending): the prepare progress
\* is shown under a new request id and resolveTrackSource is called.
SubmitSource ==
    /\ ~loading
    /\ rpc = "idle"
    /\ rsource # <<>>
    /\ \E id \in RequestIds :
          /\ SubmitState(id)
          /\ rrequest' = Str(id)
          /\ rlog' = <<LogEntry("prepare", Str(id))>>
    /\ rpc' = "called"
    /\ rresult' = None
    /\ UNCHANGED rsource
    /\ UNCHANGED resolveFrame

\* `trimmed = source.trim()` and `if (!isYoutubeURL(trimmed)) return ...`
RClassify ==
    /\ rpc = "called"
    /\ IF ~IsYoutubeURL(Trim(rsource))
       THEN /\ rpc' = "returned"
            /\ rresult' = ResolvedTrackSource("direct", None, None,
                                              Trim(rsource))
       ELSE /\ rpc' = "ensure"
            /\ rresult' = rresult
    /\ UNCHANGED <<rsource, rrequest, rlog>>
    /\ UNCHANGED <<progressVars, resolveFrame>>

\* `await this.ensureToolInstalled("yt-dlp")` begins.
IBeginResolve ==
    /\ rpc = "ensure"
    /\ IBegin(1, YtDlpChoices)
    /\ UNCHANGED ncalls

\* Whether the awaited ensureToolInstalled threw, with its throw ignored.
EnsureThrew_Ignored(pc) == FALSE

\* Whether the awaited ensureToolInstalled threw (there is no try block
\* around the await).
EnsureThrew(pc) == pc = "thrown"

\* ensureToolInstalled has returned or thrown: resolveTrackSource goes on to
\* downloadYoutubeAudio, or throws the same error.
RAfterEnsure ==
    /\ rpc = "ensure"
    /\ IDone(1)
    /\ IF EnsureThrew(ipc[1])
       THEN /\ rpc' = "thrown"
            /\ rresult' = Thrown(ierr[1])
            /\ rlog' = Append(rlog, LogEntry("ensure-failed", None))
       ELSE /\ rpc' = "download"
            /\ rresult' = rresult
            /\ rlog' = Append(rlog, LogEntry("ensured", None))
    /\ UNCHANGED <<rsource, rrequest>>
    /\ UNCHANGED <<progressVars, resolveFrame>>

\* The caller has taken the outcome of ensureToolInstalled.
IReturnResolve ==
    /\ rpc # "ensure"
    /\ IReturn(1)

\* downloadYoutubeAudio up to execBinary: the target directory is made and
\* yt-dlp is spawned.
RSpawn ==
    /\ rpc = "download"
    /\ \/ /\ rpc' = "running"
          /\ rlog' = Append(rlog, LogEntry("spawn", None))
          /\ rresult' = rresult
       \/ /\ rpc' = "thrown"
          /\ rlog' = rlog
          /\ rresult' = Thrown([kind |-> "io"])
    /\ UNCHANGED <<rsource, rrequest>>
    /\ UNCHANGED <<progressVars, resolveFrame>>

\* yt-dlp has exited: a code other than 0 or a missing file throws,
\* otherwise the title and the file are returned.
RExit ==
    /\ rpc = "running"
    /\ \E code \in {0, 1}, located \in BOOLEAN :
          IF code # 0
          THEN /\ rpc' = "thrown"
               /\ rresult' = Thrown([kind |-> "yt-dlp"])
          ELSE IF ~located
          THEN /\ rpc' = "thrown"
               /\ rresult' = Thrown([kind |-> "unlocated"])
          ELSE /\ rpc' = "returned"
               /\ rresult' =
                     ResolvedTrackSource("youtube",
                         DownloadedTitle(Trim(rsource)),
                         DownloadedFile(Trim(rsource)),
                         PathToFileURL(DownloadedFile(Trim(rsource))))
    /\ rlog' = Append(rlog, LogEntry("exit", None))
    /\ UNCHANGED <<rsource, rrequest>>
    /\ UNCHANGED <<progressVars, resolveFrame>>

\* handleSubmit after the await: the track is added, onClose closes the
\* dialog and the effect on [open] clears its state.
ResolveSucceeds ==
    /\ rpc = "returned"
    /\ ResetState
    /\ rpc' = "idle"
    /\ rsource' = <<>>
    /\ UNCHANGED <<rrequest, rlog, rresult>>
    /\ UNCHANGED resolveFrame

\* handleSubmit's catch: the error is shown; resolveTrackSource is not
\* called again.
ResolveFails ==
    /\ rpc = "thrown"
    /\ FailState(rresult.error)
    /\ rpc' = "idle"
    /\ UNCHANGED <<rsource, rrequest, rlog, rresult>>
    /\ UNCHANGED resolveFrame

\* yt-dlp is not installed, or its first release is installed and intact.
YtDlpInstalled ==
    LET release == MkRelease("yt-dlp", "v1", None, None) IN
    /\ manifestFile =
          ManifestOf(InstalledTools(EmptyTools, "yt-dlp", release, 0))
    /\ binFiles = [b \in BinaryNames |->
          IF b = release.binaryName
          THEN File(GoodBytes("yt-dlp", "v1"), TRUE) ELSE None]

ResolveInit ==
    /\ clock = 0
    /\ CatalogIdle
    /\ FetchIdle
    /\ WriteIdle
    /\ ProgressIdle
    /\ ExtractIdle
    /\ rpc = "idle"
    /\ rsource \in Sources
    /\ rrequest = None
    /\ rlog = <<>>
    /\ rresult = None
    /\ \/ manifestFile = None /\ binFiles = [b \in BinaryNames |-> None]
       \/ YtDlpInstalled
    /\ manifestTmp = None
    /\ tmpFiles = [t \in TempPaths |-> None]
    /\ ipc = [p \in Procs |-> "idle"]
    /\ itool = [p \in Procs |-> None]
    /\ irelease = [p \in Procs |-> None]
    /\ imanifest = [p \in Procs |-> None]
    /\ itempPath = [p \in Procs |-> None]
    /\ ierr = [p \in Procs |-> None]
    /\ idownloads = [p \in Procs |-> 0]
    /\ ihashedOk = [p \in Procs |-> FALSE]
    /\ ifetched = [p \in Procs |-> None]
    /\ istart = [p \in Procs |-> "none"]
    /\ istartManifest = [p \in Procs |-> None]
    /\ istartBinary = [p \in Procs |-> None]
    /\ ncalls = 0

ResolveNext ==
    \/ SubmitSource
    \/ RClassify
    \/ IBeginResolve
    \/ IWork(1)
    \/ RAfterEnsure
    \/ IReturnResolve
    \/ RSpawn
    \/ RExit
    \/ ResolveSucceeds
    \/ ResolveFails

SpecResolve == ResolveInit /\ [][ResolveNext]_vars

\* ======================================================================
\* downloadYoutubeAudio: reading what yt-dlp printed
\* ======================================================================
\* The line ends of /\r?\n/.
LineEnds == {"\n", "\r\n"}

\* The file yt-dlp writes.
MediaPath == <<"/", "media", "/", "Song", ".", "m4a">>

\* What yt-dlp may write to standard output (`--print title`, then
\* `--print after_move:filepath`).
Stdouts ==
    { <<>>,
      <<"Song", "\n">>,
      <<"Song", "\n">> \o MediaPath \o <<"\n">>,
      <<"Song", "\r\n", " ">> \o MediaPath \o <<" ", "\r\n">>,
      <<"Song", "\n", "note", "\n">> \o MediaPath \o <<"\n">>,
      <<"\n">> \o MediaPath \o <<"\n">>,
      <<" ", "\r\n">> \o MediaPath \o <<"\r\n">> }

\* stdout.split(/\r?\n/)
RECURSIVE Split(_)
Split(str) ==
    LET end == IndexOf(str, LineEnds, 1) IN
    IF end > Len(str) THEN <<str>>
    ELSE <<SubSeq(str, 1, end - 1)>> \o Split(SubSeq(str, end + 1, Len(str)))

\* .map((line) => line.trim())
MapTrim(lines) == [i \in 1 .. Len(lines) |-> Trim(lines[i])]

\* .filter(Boolean)
RECURSIVE FilterBoolean(_)
FilterBoolean(lines) ==
    IF lines = <<>> THEN <<>>
    ELSE IF Head(lines) = <<>> THEN FilterBoolean(Tail(lines))
    ELSE <<Head(lines)>> \o FilterBoolean(Tail(lines))

\* `lines` of downloadYoutubeAudio.
OutputLines(stdout) == FilterBoolean(MapTrim(Split(stdout)))

\* lines[i]: a string, or None when there is no such element (undefined).
LineAt(lines, i) == IF i \in 1 .. Len(lines) THEN Str(lines[i]) ELSE None

\* Whether a string or undefined is truthy.
NonEmpty(value) == value # None /\ value.v # <<>>

\* path.extname(p): from the last dot of the last segment, when that dot is
\* not its first character.
ExtName(filePath) ==
    LET base == SubSeq(filePath, LastIndexOf(filePath, {"/"}) + 1,
                       Len(filePath))
        dot == LastIndexOf(base, {"."})
    IN IF dot > 1 THEN SubSeq(base, dot, Len(base)) ELSE <<>>

\* path.basename(p, ext)
BaseName(filePath, ext) ==
    LET base == SubSeq(filePath, LastIndexOf(filePath, {"/"}) + 1,
                       Len(filePath))
    IN IF ext # <<>> /\ base # ext /\ EndsWith(base, ext)
       THEN SubSeq(base, 1, Len(base) - Len(ext))
       ELSE base

\* `lines[0] || path.basename(filePath, path.extname(filePath))`
TitleOf(lines, filePath) ==
    IF NonEmpty(LineAt(lines, 1))
    THEN LineAt(lines, 1).v
    ELSE BaseName(filePath, ExtName(filePath))

\* What downloadYoutubeAudio returns.
Downloaded(title, filePath) ==
    [kind |-> "downloaded", title |-> title, filePath |-> filePath]

extractFrame == <<clock, catalogVars, installVars, ncalls, fetchVars,
                  writeVars, progressVars, resolveVars>>

\* execBinary: yt-dlp runs and exits.
XExec ==
    /\ xpc = "idle"
    /\ xpc' = "exited"
    /\ UNCHANGED <<xstdout, xcode, xdisk, xlines, xresult>>
    /\ UNCHANGED extractFrame

\* `if (code !== 0) throw ...`, then the lines of standard output.
XLines ==
    /\ xpc = "exited"
    /\ IF xcode # 0
       THEN /\ xpc' = "thrown"
            /\ xresult' = Thrown([kind |-> "yt-dlp"])
            /\ xlines' = xlines
       ELSE /\ xpc' = "locate"
            /\ xlines' = OutputLines(xstdout)
            /\ xresult' = xresult
    /\ UNCHANGED <<xstdout, xcode, xdisk>>
    /\ UNCHANGED extractFrame

\* `filePath = lines[lines.length - 1]`,
\* `if (!filePath || !(await this.exists(filePath))) throw ...`, the title.
XLocate ==
    /\ xpc = "locate"
    /\ LET filePath == LineAt(xlines, Len(xlines)) IN
          IF ~NonEmpty(filePath) \/ filePath.v \notin xdisk
          THEN /\ xpc' = "thrown"
               /\ xresult' = Thrown([kind |-> "unlocated"])
          ELSE /\ xpc' = "returned"
               /\ xresult' = Downloaded(TitleOf(xlines, filePath.v),
                                        filePath.v)
    /\ UNCHANGED <<xstdout, xcode, xdisk, xlines>>
    /\ UNCHANGED extractFrame

\* The caller takes the outcome.
XReturn ==
    /\ xpc \in {"returned", "thrown"}
    /\ xpc' = "done"
    /\ UNCHANGED <<xstdout, xcode, xdisk, xlines, xresult>>
    /\ UNCHANGED extractFrame

ExtractInit ==
    /\ clock = 0
    /\ InstallIdle
    /\ CatalogIdle
    /\ FetchIdle
    /\ WriteIdle
    /\ ProgressIdle
    /\ ResolveIdle
    /\ xpc = "idle"
    /\ xstdout \in Stdouts
    /\ xcode \in {0, 1}
    /\ xdisk \in {{}, {MediaPath}}
    /\ xlines = <<>>
    /\ xresult = None

ExtractNext ==
    \/ XExec
    \/ XLines
    \/ XLocate
    \/ XReturn

SpecExtract == ExtractInit /\ [][ExtractNext]_vars

\* ======================================================================
\* ensureToolInstalled over a damaged tools.json
\* ======================================================================
\* What tools.json may hold that is no manifest of the expected shape:
\* nothing, text that is not JSON, `null`, a number for `tools`, a number
\* for a tool's record.
DamagedManifests ==
    { None, Corrupt, JsonNull, ManifestOf(Num(5)),
      ManifestOf([EmptyTools EXCEPT !["yt-dlp"] = Num(5)]) }

\* One call after another for yt-dlp, starting from a damaged tools.json.
DamagedInit ==
    /\ CatalogIdle
    /\ AuxIdle
    /\ clock = 0
    /\ manifestFile \in DamagedManifests
    /\ manifestTmp = None
    /\ binFiles \in { [b \in BinaryNames |-> None],
                      [b \in BinaryNames |->
                          IF b = "yt-dlp" THEN File("yt1", TRUE) ELSE None] }
    /\ tmpFiles = [t \in TempPaths |-> None]
    /\ ipc = [p \in Procs |-> "idle"]
    /\ itool = [p \in Procs |-> None]
    /\ irelease = [p \in Procs |-> None]
    /\ imanifest = [p \in Procs |-> None]
    /\ itempPath = [p \in Procs |-> None]
    /\ ierr = [p \in Procs |-> None]
    /\ idownloads = [p \in Procs |-> 0]
    /\ ihashedOk = [p \in Procs |-> FALSE]
    /\ ifetched = [p \in Procs |-> None]
    /\ istart = [p \in Procs |-> "none"]
    /\ istartManifest = [p \in Procs |-> None]
    /\ istartBinary = [p \in Procs |-> None]
    /\ ncalls = 0

IBeginDamaged ==
    /\ IBegin(1, { <<t, MkRelease(t, "v1", None, None)>> : t \in ToolNames })
    /\ UNCHANGED ncalls

InstallDamagedNext ==
    \/ IBeginDamaged
    \/ IStep(1)

SpecInstallDamaged ==
    DamagedInit
    /\ [][InstallDamagedNext]_vars

\* ------------------------------------------------------------ properties
\* The call of p ends in this step.
IEnds(p) == ~IDone(p) /\ IDone(p)'

\* The bytes p fetched do not hash to the declared hash of its release.
FetchedMismatch(p) ==
    /\ ifetched[p].kind = "bytes"
    /\ Sha256Hex(ifetched[p].bytes) # irelease[p].sha256

\* C1 (as claimed): a download whose fetched bytes hash to a value other than
\* the release's declared hash is never committed: the file at the final
\* binary path never holds those bytes.
C1_MismatchedDownloadNeverCommitted ==
    \A p \in Procs :
        FetchedMismatch(p) =>
            LET f == binFiles[irelease[p].binaryName] IN
            ~(Exists(f) /\ f.bytes = ifetched[p].bytes)

\* C1, the rest of the claim: such a call ends by throwing the checksum
\* error with no file at its temporary path, and a call renames its
\* temporary file only after it compared the hash equal.
C1_MismatchedDownloadFails ==
    [][\A p \in Procs :
        /\ (IEnds(p) /\ FetchedMismatch(p)) =>
              /\ ipc'[p] = "thrown"
              /\ ierr'[p].kind = "checksum"
              /\ ~Exists(tmpFiles'[itempPath[p]])
        /\ (ipc[p] = "rename" /\ ipc'[p] = "installWrite") => ihashedOk[p]
      ]_vars

\* C2: a call that begins with the recorded binary present but changed on
\* disk never takes the Verified path, and when it ends it has performed a
\* download.
C2_TamperedBinaryIsReinstalled ==
    \A p \in Procs :
        istart[p] = "tampered" =>
            /\ ipc[p] \notin {"verifiedChmod", "verifiedWrite",
                               "verifiedRename", "verified"}
            /\ IDone(p) => idownloads[p] = 1

C2_Witness ==
    \E p \in Procs :
        /\ istart[p] = "tampered"
        /\ ipc[p] = "installed"
        /\ idownloads[p] = 1

\* The two manifests differ at most in the lastVerifiedAt of `tool`.
DiffersOnlyInLastVerifiedAt(before, after, tool) ==
    /\ before.kind = "manifest"
    /\ after.kind = "manifest"
    /\ \A t \in ToolNames \ {tool} : after.tools[t] = before.tools[t]
    /\ after.tools[tool].kind = "record"
    /\ before.tools[tool] =
         [after.tools[tool] EXCEPT
            !.lastVerifiedAt = before.tools[tool].lastVerifiedAt]

\* C3: a call that begins with the tool installed and intact for the same
\* release (and whose binary stays untouched) performs no download, and
\* when it ends tools.json differs from what it was when the call began at
\* most in that tool's lastVerifiedAt, which a successful call sets to the
\* time of the call.
C3_SecondInstallOnlyRefreshesLastVerifiedAt ==
    \A p \in Procs :
        istart[p] = "intact" =>
            /\ idownloads[p] = 0
            /\ ipc[p] # "installed"
            /\ IDone(p) =>
                  DiffersOnlyInLastVerifiedAt(istartManifest[p], manifestFile,
                                              itool[p])
            /\ ipc[p] = "verified" =>
                  \E t \in 0 .. clock :
                      manifestFile.tools[itool[p]].lastVerifiedAt =
                          ToISOString(t * MsPerTick)

C3_Witness ==
    \E p \in Procs :
        /\ istart[p] = "intact"
        /\ ipc[p] = "verified"
        /\ manifestFile # istartManifest[p]
        /\ \E t \in ToolNames \ {itool[p]} :
              manifestFile.tools[t].kind = "record"

\* ------------------------------------------- properties of the manifest
\* The response is no manifest getRemoteManifest takes: none came, or
\* parseAndValidateRemoteManifest threw on it.
FetchFailed(r) ==
    \/ r.kind = "failed"
    \/ ParseAndValidateRemoteManifest(r.parsed, publicKey) # None

\* The fetch of p's call fails in this step and the call falls back.
FailedFetchStep(p) == gpc[p] = "fetch" /\ gpc'[p] = "returned"

\* The catalog in the disk cache file, None when there is none to read.
DiskCatalog == ReadRemoteManifestDiskCache(cacheFile)

\* C4 (as claimed): a call whose fetch fails leaves the memory cache and the
\* disk cache file as they were before the call.
C4_FailedFetchLeavesCachesUnchanged ==
    [][\A p \in Procs :
          FailedFetchStep(p) =>
              /\ memCache' = memCache
              /\ cacheFile' = cacheFile
              /\ cacheTmp' = cacheTmp
      ]_vars

\* The fetch of p's call succeeded (gcache[p] is the cache entry it built)
\* and getRemoteManifest has completed.
FetchedAndCompleted(p) ==
    /\ gcache[p] # None
    /\ gpc[p] \in {"returned", "resolved", "unsupported"}

\* C5 (as claimed): when the fetch of a call succeeded and the call has
\* completed, the memory cache and the disk cache both hold the fetched
\* catalog with its new fetchedAt, and the call returned that catalog.
C5_SuccessfulFetchRefreshesBothCaches ==
    \A p \in Procs :
        FetchedAndCompleted(p) =>
            /\ memCache = gcache[p]
            /\ DiskCatalog = gcache[p]
            /\ gresult[p] = gcache[p].manifest

\* C6 (as claimed): a call whose fetch fails returns the catalog the disk
\* cache file holds at that moment, and null only when it holds none.
C6_FallbackIsMostRecentDiskCache ==
    [][\A p \in Procs :
          FailedFetchStep(p) =>
              gresult'[p] =
                  IF DiskCatalog # None THEN DiskCatalog.manifest ELSE None
      ]_vars

\* The catalog of cache entry `cache` holds a valid release of `tool`.
HasValidEntry(cache, tool) ==
    /\ cache # None
    /\ ToValidToolRelease(RemoteEntryOf(cache.manifest, tool)) # None

\* C7 (as claimed): getRelease throws only when neither a cached catalog
\* (in memory or on disk) nor the built-in table has a valid entry for the
\* tool and platform.
C7_ResolveSucceedsWhenAnEntryExists ==
    \A p \in Procs :
        gpc[p] = "unsupported" =>
            /\ ~HasValidEntry(memCache, gtool[p])
            /\ ~HasValidEntry(DiskCatalog, gtool[p])
            /\ BUILTIN_TOOL_RELEASES(gtool[p], platformKey) = None

\* The manifest carries a signature that does not verify under the
\* configured key.
BadlySigned(manifest) ==
    /\ manifest.kind = "object"
    /\ Truthy(manifest.signature)
    /\ Truthy(publicKey)
    /\ manifest.signature # ManifestPayload(manifest)

\* C8: a fetched manifest whose signature does not verify under the
\* configured key is in no cache (memory, disk file, its temporary file)
\* and is returned by no call; the call that fetched it falls back: it
\* returns the catalog of the disk cache it read, or null.
C8_InvalidSignatureNeverAccepted ==
    /\ memCache # None => ~BadlySigned(memCache.manifest)
    /\ DiskCatalog # None => ~BadlySigned(DiskCatalog.manifest)
    /\ cacheTmp # None => ~BadlySigned(cacheTmp.manifest)
    /\ \A p \in Procs :
          /\ gresult[p] # None => ~BadlySigned(gresult[p])
          /\ gcache[p] # None => ~BadlySigned(gcache[p].manifest)
          /\ ( /\ gresponse[p] # None
               /\ gresponse[p].kind = "body"
               /\ BadlySigned(gresponse[p].parsed) ) =>
                 /\ gpc[p] \in {"returned", "resolved", "unsupported"}
                 /\ gpath[p] = "fallback"
                 /\ gcache[p] = None
                 /\ gresult[p] =
                      IF gdisk[p] # None THEN gdisk[p].manifest ELSE None

\* A call fetched a manifest with a bad signature and fell back to the
\* stale catalog of the disk cache.
C8_Witness ==
    \E p \in Procs :
        /\ gpc[p] = "returned"
        /\ gresponse[p].kind = "body"
        /\ BadlySigned(gresponse[p].parsed)
        /\ gresult[p] = OldManifest

\* C9 (as claimed): with a key configured, every catalog a fetch places in
\* a cache or returns carries a signature that verifies over its
\* { version, generatedAt, tools } payload.
C9_OnlySignedCatalogsAccepted ==
    \A p \in Procs :
        (Truthy(publicKey) /\ gcache[p] # None) =>
            gcache[p].manifest.signature = ManifestPayload(gcache[p].manifest)

YoungerThanSixHours(cache, now) ==
    /\ cache # None
    /\ IsFiniteDate(cache.fetchedAt)
    /\ now - DateParse(cache.fetchedAt) < 6 * 60 * 60 * 1000

\* C10: a call that finds the memory cache younger than six hours returns
\* its catalog at once (no disk read, no fetch); a call goes on to fetch
\* only when neither the memory cache nor the disk cache is younger than
\* six hours; a catalog returned without a fetch attempt is that of a
\* cache entry younger than six hours, which the memory cache then holds.
C10_FetchOnlyWhenNoCacheIsFresh ==
    \A p \in Procs :
        /\ (gpc[p] = "readDisk") => ~YoungerThanSixHours(memCache, gnow[p])
        /\ (gpc[p] = "fetch") =>
              /\ ~YoungerThanSixHours(memCache, gnow[p])
              /\ ~YoungerThanSixHours(DiskCatalog, gnow[p])
        /\ (gpc[p] = "returned" /\ gpath[p] = "memory") =>
              /\ YoungerThanSixHours(memCache, gnow[p])
              /\ gresult[p] = memCache.manifest
              /\ gdisk[p] = None
              /\ gresponse[p] = None
        /\ (gpc[p] = "returned" /\ gpath[p] = "disk") =>
              /\ YoungerThanSixHours(gdisk[p], gnow[p])
              /\ memCache = gdisk[p]
              /\ gresult[p] = gdisk[p].manifest
              /\ gresponse[p] = None
        /\ (gpc[p] = "returned" /\ gpath[p] = "fallback") =>
              gresponse[p] # None

\* A call is served from a memory cache entry that has aged, but by less
\* than six hours.
C10_Witness ==
    \E p \in Procs :
        /\ gpc[p] = "returned"
        /\ gpath[p] = "memory"
        /\ gnow[p] > DateParse(memCache.fetchedAt)

\* ------------------------------------------ properties of getRelease
\* getRelease has returned or thrown for p; `entry` is what the catalog
\* getRemoteManifest returned holds for the tool and platform (None when it
\* returned no catalog or the catalog has no such entry).
ResolvedEntry(p) == RemoteEntryOf(gresult[p], gtool[p])

\* C11: when getRelease completes, it has returned the catalog's entry for
\* the tool and platform if the catalog is available and toValidToolRelease
\* takes the entry; otherwise the built-in release of the tool for the
\* platform; and it has thrown "Unsupported platform" exactly when there is
\* neither.
C11_ResolvePrefersValidRemoteEntry ==
    \A p \in Procs :
        GDone(p) =>
            LET entry == ResolvedEntry(p)
                valid == ToValidToolRelease(entry) # None
                builtin == BUILTIN_TOOL_RELEASES(gtool[p], platformKey)
            IN /\ valid =>
                    /\ gpc[p] = "resolved"
                    /\ grelease[p].version = entry.version.v
                    /\ grelease[p].url = entry.url.v
                    /\ grelease[p].binaryName = entry.binaryName.v
                    /\ ToLowerCase(grelease[p].sha256)
                         = ToLowerCase(entry.sha256.v)
               /\ (~valid /\ builtin # None) =>
                    /\ gpc[p] = "resolved"
                    /\ grelease[p] = builtin
               /\ (gpc[p] = "unsupported") <=> (~valid /\ builtin = None)

\* getRelease returned the catalog's entry on a platform for which the
\* built-in table has a release too.
C11_Witness ==
    \E p \in Procs :
        /\ gpc[p] = "resolved"
        /\ BUILTIN_TOOL_RELEASES(gtool[p], platformKey) # None
        /\ grelease[p].url = "yt-dlp_remote"

\* The entry is a well-formed release descriptor: version, url, sha256 and
\* binaryName are non-empty strings and binaryName holds no '/' and no '\'.
WellFormedEntry(entry) ==
    /\ entry.kind = "object"
    /\ entry.version.kind = "string" /\ entry.version.v # ""
    /\ entry.url.kind = "string" /\ entry.url.v # ""
    /\ entry.sha256.kind = "string" /\ entry.sha256.v # ""
    /\ entry.binaryName.kind = "string" /\ entry.binaryName.v # <<>>
    /\ \A i \in 1 .. Len(entry.binaryName.v) :
          entry.binaryName.v[i] \notin {"/", "\\"}

\* C12 (as claimed): getRelease takes the catalog's entry only if it is a
\* well-formed release descriptor; for any other entry it returns the
\* built-in release (or throws when the table has none).
C12_OnlyWellFormedEntriesAccepted ==
    \A p \in Procs :
        (GDone(p) /\ ~WellFormedEntry(ResolvedEntry(p))) =>
            grelease[p] = BUILTIN_TOOL_RELEASES(gtool[p], platformKey)

\* The file name holds a path separator.
HasPathSeparator(chars) ==
    \E i \in 1 .. Len(chars) : chars[i] \in {"/", "\\"}

\* C13: whatever the remote manifest holds, a release getRelease returns
\* has a binaryName without '/' and without '\'.
C13_ResolvedBinaryNameHasNoSeparator ==
    \A p \in Procs :
        (gpc[p] = "resolved") => ~HasPathSeparator(grelease[p].binaryName)

\* The catalog's entry names a binary outside the binaries directory, and
\* getRelease returned the built-in release instead.
C13_Witness ==
    \E p \in Procs :
        /\ gpc[p] = "resolved"
        /\ ResolvedEntry(p).kind = "object"
        /\ ResolvedEntry(p).binaryName.kind = "string"
        /\ HasPathSeparator(ResolvedEntry(p).binaryName.v)
        /\ grelease[p] = BUILTIN_TOOL_RELEASES(gtool[p], platformKey)

\* ------------------------------------------ properties of httpGetBuffer
\* How many of the responses received were redirects.
RedirectsReceived ==
    Cardinality({ i \in 1 .. Len(hlog) :
                    hlog[i].kind = "response"
                    /\ hlog[i].statusCode \in 300 .. 399
                    /\ hlog[i].location # None })

\* The response that ended the chain, None when the call ended without one.
TerminalResponse ==
    IF Len(hlog) > RedirectsReceived THEN hlog[Len(hlog)] ELSE None

C15_CanonicalFileIsAlwaysOneCompleteWrite ==
    /\ canonFile # 0 => files[canonFile].kind = "json"
    /\ robserved # None => robserved.kind = "json"

\* ------------------------------------- properties of a failed install
\* The call of p fails in its Download, Verify or Commit step: it leaves
\* the catch block of ensureToolInstalled in this step.
IFailsAfterDownload(p) == ipc[p] = "cleanup" /\ ipc'[p] = "thrown"

\* C16 (as claimed): when a call fails in its Download, Verify or Commit
\* step, the error it throws is the one that made it fail, no file is at its
\* temporary path, and the final binary path holds what it held when the
\* call began or a binary whose hash is the release's.
C16_FailedInstallLeavesNoTemporaryAndNoPartialBinary ==
    [][\A p \in Procs :
          IFailsAfterDownload(p) =>
              /\ ierr'[p] = ierr[p]
              /\ ierr[p] # None
              /\ ~Exists(tmpFiles'[itempPath[p]])
              /\ LET f == binFiles'[irelease[p].binaryName]
                 IN \/ f = istartBinary[p]
                    \/ Exists(f) /\ Sha256Hex(f.bytes) = irelease[p].sha256
      ]_vars

\* ------------------------------------- properties of the progress shown
\* C17 (as claimed): the numeric progress shown for the current request is
\* never below the highest numeric progress shown for it before.
C17_ShownProgressIsHighWaterMark ==
    (progress # None /\ IsNumber(progress.progress) /\ phigh # None)
        => progress.progress.v >= phigh.v

\* C18: an event for the current request with a lower number than the one
\* shown keeps the number shown and takes the event's stage and message; one
\* with a number not lower is adopted whole; an event for another request id
\* leaves the progress shown as it is.
C18_MergeOfTwoNumericEvents ==
    [][pevent' # None =>
          IF requestId # None /\ pevent'.id = requestId.v
          THEN (/\ progress # None
                /\ IsNumber(progress.progress)
                /\ IsNumber(pevent'.progress.progress))
               => IF pevent'.progress.progress.v < progress.progress.v
                  THEN progress' =
                         [stage |-> pevent'.progress.stage,
                          message |-> pevent'.progress.message,
                          progress |-> progress.progress]
                  ELSE progress' = pevent'.progress
          ELSE progress' = progress
      ]_vars

\* C18 witness: 30 arrived for the current request after 40 was shown, and
\* 40 is shown with the event's stage and message.
C18_Witness ==
    /\ requestId # None
    /\ pevent # None
    /\ pevent.id = requestId.v
    /\ pevent.progress.progress = Num(30)
    /\ progress = [pevent.progress EXCEPT !.progress = Num(40)]

\* ------------------------------------ properties of resolveTrackSource
\* The host `host` is below the domain `domain`: some labels and a dot,
\* then the domain.
IsSubdomainOf(host, domain) ==
    \E k \in 2 .. Len(host) :
        /\ host[k] = "."
        /\ SubSeq(host, k + 1, Len(host)) = domain

\* The trimmed source parses as an absolute URL whose host, whatever its
\* case, is youtube.com, youtu.be or a subdomain of youtube.com.
NeedsExtraction(source) ==
    LET parsed == ParseURL(Trim(source))
        host == LowerCased(parsed.hostname)
    IN /\ parsed.ok
       /\ \/ host = <<"youtube", ".", "com">>
          \/ host = <<"youtu", ".", "be">>
          \/ IsSubdomainOf(host, <<"youtube", ".", "com">>)

\* resolveTrackSource decides in this step whether the source is direct.
Classifies == rpc = "called" /\ rpc' # "called"

\* C19: resolveTrackSource goes on to the extraction exactly for the sources
\* whose host is youtube.com, youtu.be or a subdomain of youtube.com; for
\* every other source it returns at once sourceType "direct" with the
\* trimmed source as url, and installs nothing, spawns nothing and leaves
\* tools.json and the catalog caches as they are. AudioSelector's hint is
\* the same for every value of the url field.
C19_SourceClassification ==
    /\ [](AudioSelectorYoutube(rsource) <=> NeedsExtraction(rsource))
    /\ []((rpc = "returned" /\ rresult.sourceType = "youtube")
             => NeedsExtraction(rsource))
    /\ [][Classifies =>
            IF NeedsExtraction(rsource)
            THEN rpc' = "ensure" /\ rresult' = None
            ELSE /\ rpc' = "returned"
                 /\ rresult' = ResolvedTrackSource("direct", None, None,
                                                   Trim(rsource))
                 /\ rlog' = <<LogEntry("prepare", rrequest)>>
                 /\ UNCHANGED <<installVars, catalogVars>>
         ]_vars

\* C19 witness: a source whose host only ends in "youtube.com" was returned
\* as direct, trimmed.
C19_Witness ==
    /\ rpc = "returned"
    /\ rsource = <<"https", "://", "not", "youtube", ".", "com", "/", "x">>
    /\ rresult.sourceType = "direct"
    /\ rresult.url = rsource

\* ensureToolInstalled is called in this step.
EnsureBegins == ipc[1] = "idle" /\ ipc'[1] # "idle"

\* The subprocess is started in this step.
Spawns == rpc = "download" /\ rpc' = "running"

C22_MergeOfNonNumericEvent ==
    [][(/\ pevent' # None
        /\ requestId # None
        /\ pevent'.id = requestId.v
        /\ progress # None
        /\ IsNumber(progress.progress)
        /\ ~IsNumber(pevent'.progress.progress))
          => IF pevent'.progress.stage = "download-audio"
             THEN progress' =
                    [stage |-> pevent'.progress.stage,
                     message |-> pevent'.progress.message,
                     progress |-> progress.progress]
             ELSE progress' = pevent'.progress /\ ~IsNumber(progress'.progress)
      ]_vars

\* C22 witness: after 40 had been shown, an event of stage "finalize" with
\* no number arrived for the current request, and no number is shown.
C22_Witness ==
    /\ requestId # None
    /\ pevent # None
    /\ pevent.id = requestId.v
    /\ pevent.progress.stage = "finalize"
    /\ ~IsNumber(pevent.progress.progress)
    /\ progress = pevent.progress
    /\ phigh = Num(40)

\* ------------------------------ properties of downloadYoutubeAudio
\* The title line yt-dlp printed: the first line of standard output.
PrintedTitle(stdout) == Trim(Split(stdout)[1])

\* The file's base name with its extension stripped.
NameWithoutExtension(filePath) ==
    LET base == SubSeq(filePath, LastIndexOf(filePath, {"/"}) + 1,
                       Len(filePath))
        dot == LastIndexOf(base, {"."})
    IN IF dot > 1 THEN SubSeq(base, 1, dot - 1) ELSE base

\* C21 (as claimed): the call returns exactly when the exit code is 0 and
\* the last non-blank line names an existing file, and fails as unlocated
\* when the code is 0 and it does not; the file path returned is that line;
\* the title returned is the first non-blank line, and when the title line
\* yt-dlp printed is empty it is the file's base name without its extension,
\* never the file path.
C21_ExtractOutputParsing ==
    (xpc \in {"returned", "thrown"}) =>
        LET lines == OutputLines(xstdout)
            last == LineAt(lines, Len(lines))
            located == last # None /\ last.v \in xdisk
        IN /\ (xpc = "returned") <=> (xcode = 0 /\ located)
           /\ (xcode = 0 /\ ~located) =>
                  xresult = Thrown([kind |-> "unlocated"])
           /\ (xpc = "returned") =>
                  /\ xresult.filePath = last.v
                  /\ IF PrintedTitle(xstdout) = <<>>
                     THEN /\ xresult.title =
                                NameWithoutExtension(xresult.filePath)
                          /\ xresult.title # xresult.filePath
                     ELSE xresult.title = lines[1]

\* ------------------------------- properties of the caches' fetchedAt
\* Cache entry `new` has a fetchedAt earlier than that of entry `old`.
FetchedEarlier(new, old) ==
    /\ new # None /\ IsFiniteDate(new.fetchedAt)
    /\ old # None /\ IsFiniteDate(old.fetchedAt)
    /\ DateParse(new.fetchedAt) < DateParse(old.fetchedAt)

\* C23 (as claimed): no step of any getRelease call moves the fetchedAt of
\* the memory cache or of the disk cache file to an earlier time.
C23_FetchedAtNeverDecreases ==
    [][/\ ~FetchedEarlier(memCache', memCache)
       /\ ~FetchedEarlier(ReadRemoteManifestDiskCache(cacheFile'),
                          DiskCatalog)
      ]_vars

\* ------------------------- properties of tools.json against the binaries
\* tools.json records `tool`, a file is at the binary path it records, and
\* that file's hash is not the recorded one.
RecordDisagrees(manifest, bins, tool) ==
    LET record == ToolEntry(ReadManifestFile(manifest), tool) IN
    /\ record # None
    /\ Exists(bins[record.binaryPath.name])
    /\ Sha256Hex(bins[record.binaryPath.name].bytes) # record.sha256

\* C24 (as claimed): when a call ends, returning or throwing, and tools.json
\* records its tool and a file is at the recorded binary path, the file's
\* hash is the recorded hash.
C24_RecordAgreesWithBinaryAfterEveryCall ==
    [][\A p \in Procs :
          IEnds(p) => ~RecordDisagrees(manifestFile', binFiles', itool[p])
      ]_vars

\* ------------------------------ properties of a damaged tools.json
\* tools.json holds no manifest of the expected shape: it is absent, not
\* JSON, `null`, or its `tools` is no object.
IllFormed(file) ==
    file.kind # "manifest" \/ ~IsToolsObject(file.tools)

\* C25 (as claimed): readManifest turns a tools.json that is absent, not
\* JSON or of the wrong shape into the empty manifest, and a call that began
\* with such a file never fails because of it: when its download and its
\* integrity check succeeded, it throws only if a file operation failed.
C25_DamagedManifestNeverBlocksInstall ==
    [][\A p \in Procs :
          /\ (ipc[p] = "readManifest" /\ ipc'[p] # "readManifest"
                /\ IllFormed(manifestFile))
               => imanifest'[p] = EmptyTools
          /\ (IEnds(p) /\ IllFormed(istartManifest[p]) /\ ihashedOk[p]
                /\ ipc'[p] = "thrown")
               => ierr'[p] = [kind |-> "io"]
      ]_vars

\* ------------------------------- properties of the temporary paths
\* The call of p is pending and has chosen its temporary path.
HasTempPath(p) == itempPath[p] # None /\ ~IDone(p)

\* C26 (as claimed): two pending calls never have the same temporary path.
C26_OverlappingAttemptsUseDistinctTempPaths ==
    \A p, q \in Procs :
        (p # q /\ HasTempPath(p) /\ HasTempPath(q)) =>
            itempPath[p] # itempPath[q]

\* ----------------------------------- properties of the records kept
\* The calls of p and q, for different tools, have both returned.
BothInstalled(p, q) ==
    /\ p # q
    /\ ipc[p] \in {"verified", "installed"}
    /\ ipc[q] \in {"verified", "installed"}
    /\ itool[p] # itool[q]

\* C27 (as claimed): when calls for two different tools have both returned,
\* tools.json records both tools; and no step of a call for one tool
\* changes or removes the record of another tool.
C27_NoLostManifestRecords ==
    /\ [](\A p, q \in Procs :
             BothInstalled(p, q) =>
                 /\ ToolEntry(ReadManifestFile(manifestFile), itool[p]) # None
                 /\ ToolEntry(ReadManifestFile(manifestFile), itool[q]) # None)
    /\ [][\A p \in Procs : \A t \in ToolNames :
             (ipc[p] # "idle" /\ ipc[p] # ipc'[p] /\ itool[p] # t
                /\ ToolEntry(ReadManifestFile(manifestFile), t) # None)
               => ToolEntry(ReadManifestFile(manifestFile'), t) =
                      ToolEntry(ReadManifestFile(manifestFile), t)
         ]_vars


=============================================================================
